---- MODULE Spec2Model ----
(***************************************************************************)
(* Model of the desktop-widgets process supervisor                         *)
(* (src/lib/daemon-manager.ts): the registry of named daemons, the         *)
(* set/start/stop/list operations as Effect generators that may interleave *)
(* at their yield points, and the supervising fibers with their children;  *)
(* and of the watcher monitors (createNetworkMonitor of src/lib/network.ts *)
(* and createAudioMonitor of src/lib/audio.ts): the watcher child, its     *)
(* restart timer, the read loop, the signal poller and the stop function; *)
(* and of the decoding of the watcher's output into lines and of           *)
(* parseMonitorLine, each taken by itself.                                  *)
(***************************************************************************)
EXTENDS Integers, Sequences, FiniteSets, TLC

VARIABLES
    daemons,    \* MutableHashMap<string, Daemon>: registered name -> entry
    cells,      \* the SubscriptionRef cells ever made: cell id -> DaemonState
    fibers,     \* the supervising fibers ever forked: fiber id -> fiber
    calls,      \* per caller: the operation in flight and its locals
    hist,       \* the last two completed operations, oldest first
    scope,      \* the scope of the DaemonManager service: "open" or "closed"
    listed,     \* what a caller holds from its last list()
    kind,       \* the monitor created: "network", "audio" or "none"
    stopped,    \* let stopped: the stop function has been called
    procs,      \* the watcher children ever spawned; proc is the last one
    timers,     \* the restart timeouts scheduled and not yet fired: delays
    signalInterval, \* let signalInterval: "none", "active" or "cleared"
    currentDevice,  \* let currentDevice: a device or "none"
    initPc,     \* init(): "query" while its first await is pending
    poll,       \* the poller's callback: "idle" or "reading" the signal
    late,       \* the callbacks invoked after the stop function was called
    effects,    \* the last step of a watched monitor: the event it handled
                \* and the queries and callbacks it called, in order
    reader,     \* a read loop fed the bytes of one text chunk by chunk
    parsed,     \* what a function is given and, once done, what it
                \* returned: <<value>>, or <<>> for null
    sched       \* a debounced callback: its timeout, the clock, and the
                \* calls and invocations so far

vars == <<daemons, cells, fibers, calls, hist>>

\* the state of a monitor
mvars == <<kind, stopped, procs, timers, signalInterval, currentDevice,
           initPc, poll, late>>

\* the state of the line functions taken by themselves
pvars == <<reader, parsed, sched>>

\* what the operations of the manager leave alone
rest == <<scope, listed, mvars, effects, pvars>>

\* what a monitor leaves alone
manager == <<vars, scope, listed, pvars>>

----------------------------------------------------------------------------
(* Bounds *)

MaxFibers == 2
MaxCells == 3
MaxProcs == 3

Names == {"a"}
AllNames == {"a", "b"}
Commands == {"cmd1", "cmd2"}
Callers == {"c1", "c2"}
ExitCodes == {0, 1}
\* what a child may write to stderr: chunks of text (sequences of characters)
StderrOutputs == {<<>>, << <<"e">>, <<"r", "r">> >>}

----------------------------------------------------------------------------
(* Data *)

DaemonState == {"running", "stopped"}

NoFiber == 0
NoCell == 0

\* interface Daemon { name, command, state, fiber? }
Daemon(name, command, state, fiber) ==
    [name |-> name, command |-> command, state |-> state, fiber |-> fiber]

NoDaemon == Daemon("", "", NoCell, NoFiber)

DaemonNotFoundError == "DaemonNotFoundError"

\* class DaemonDiedError { daemon, exitCode, message }
DaemonDiedError(daemon, exitCode, message) ==
    [tag |-> "DaemonDiedError", daemon |-> daemon,
     exitCode |-> exitCode, message |-> message]

PlatformError == [tag |-> "PlatformError"]
Interrupted == [tag |-> "Interrupted"]
NoExit == [tag |-> "none"]

IdleCall ==
    [pc |-> "idle", op |-> "none", name |-> "", command |-> "",
     daemon |-> NoDaemon, state |-> "", fiber |-> NoFiber]

\* Stream.runFold("", (acc, chunk) => acc + chunk) over the decoded chunks
RECURSIVE RunFold(_, _)
RunFold(acc, chunks) ==
    IF chunks = <<>> THEN acc
    ELSE RunFold(acc \o Head(chunks), Tail(chunks))

\* SubscriptionRef.get
CellGet(c) == cells[c]

\* MutableHashMap.get(daemons, name) is Some
Registered(name) == name \in DOMAIN daemons

\* a registry that holds the entry written last and nothing else
HashMapSet_Single(name, entry) == [n \in {name} |-> entry]

\* MutableHashMap.set(daemons, name, entry)
HashMapSet(name, entry) ==
    [n \in (DOMAIN daemons) \cup {name} |->
        IF n = name THEN entry ELSE daemons[n]]

\* list(): MutableHashMap.values(daemons)
list == {daemons[n] : n \in DOMAIN daemons}

\* the observable state of a registered daemon
StateOf(name) == CellGet(daemons[name].state)

Busy(p) == calls[p].pc # "idle"

\* a fiber as forkIn leaves it: not yet run, no child
NewFiber(daemon) ==
    [daemon |-> daemon, status |-> "forked", child |-> "none",
     code |-> 0, stderr |-> <<>>, exitCode |-> 0, exit |-> NoExit]

InFlight(op) == Cardinality({q \in Callers : calls[q].op = op})

\* a completed operation as remembered in hist: what was called, how it
\* returned and the handle list() shows for the name at the return
Remember(op, name, command, res, newDaemons) ==
    LET e == [op |-> op, name |-> name, command |-> command, res |-> res,
              handle |-> IF name \in DOMAIN newDaemons
                         THEN newDaemons[name].fiber ELSE NoFiber]
        h == Append(hist, e)
    IN IF Len(h) > 2 THEN Tail(h) ELSE h

\* the operation of caller p returns with result res
Return(p, res, newDaemons) ==
    /\ calls' = [calls EXCEPT ![p] = IdleCall]
    /\ hist' = Remember(calls[p].op, calls[p].name, calls[p].command, res,
                        newDaemons)

----------------------------------------------------------------------------
(* set *)

\* a set that keeps the command it finds
SetExisting_KeepsCommand(existing, name, command) ==
    Daemon(name, existing.command, existing.state, NoFiber)

\* set, lines 54-57: { ...daemon, state: existing.value.state }; the
\* argument has no fiber property, so the stored entry has none either
SetExisting(existing, name, command) ==
    Daemon(name, command, existing.state, NoFiber)

\* set, lines 48-51: { ...daemon, state }
SetFresh(name, command, state) ==
    Daemon(name, command, state, NoFiber)

\* set, lines 43-57: look the name up; a known name is rewritten at once,
\* an unknown one first makes its state cell
SetCall(p, name, command) ==
    /\ ~Busy(p)
    /\ IF Registered(name)
       THEN /\ daemons' = HashMapSet(name,
                              SetExisting(daemons[name], name, command))
            /\ calls' = calls
            /\ hist' = Remember("set", name, command, "ok", daemons')
       ELSE /\ Len(cells) + InFlight("set") < MaxCells
            /\ calls' = [calls EXCEPT ![p] =
                   [IdleCall EXCEPT !.pc = "setMake", !.op = "set",
                                    !.name = name, !.command = command]]
            /\ UNCHANGED <<daemons, hist>>
    /\ UNCHANGED <<cells, fibers>>

\* a set that registers its daemon as running
InitialState_Running == "running"

\* set, line 46: SubscriptionRef.make<DaemonState>("stopped")
InitialState == "stopped"

\* set, lines 46-51: SubscriptionRef.make("stopped"), then store the entry
SetMake(p) ==
    /\ calls[p].pc = "setMake"
    /\ cells' = Append(cells, InitialState)
    /\ daemons' = HashMapSet(calls[p].name,
           SetFresh(calls[p].name, calls[p].command, Len(cells) + 1))
    /\ Return(p, "ok", daemons')
    /\ UNCHANGED fibers

----------------------------------------------------------------------------
(* start *)

\* a start without the check of the state
StartSpawns_Always(state) == TRUE

\* start, lines 68-70: a running daemon is left alone
StartSpawns(state) == state # "running"

\* a start that stores the entry without the fiber
StartEntry_NoHandle(daemon, fiber) == daemon

\* start, lines 95-98: { ...daemon.value, fiber }
StartEntry(daemon, fiber) == [daemon EXCEPT !.fiber = fiber]

\* start, lines 61-65: look the name up
StartCall(p, name) ==
    /\ ~Busy(p)
    /\ IF Registered(name)
       THEN /\ Len(fibers) + InFlight("start") < MaxFibers
            /\ calls' = [calls EXCEPT ![p] =
                   [IdleCall EXCEPT !.pc = "startGet", !.op = "start",
                                    !.name = name,
                                    !.daemon = daemons[name]]]
            /\ hist' = hist
       ELSE /\ calls' = calls
            /\ hist' = Remember("start", name, "", DaemonNotFoundError,
                       daemons)
    /\ UNCHANGED <<daemons, cells, fibers>>

\* start, lines 67-70: SubscriptionRef.get(daemon.value.state)
StartGet(p) ==
    /\ calls[p].pc = "startGet"
    /\ IF StartSpawns(CellGet(calls[p].daemon.state))
       THEN /\ calls' = [calls EXCEPT ![p].pc = "startFork",
                                      ![p].state =
                                          CellGet(calls[p].daemon.state)]
            /\ hist' = hist
       ELSE Return(p, "ok", daemons)
    /\ UNCHANGED <<daemons, cells, fibers>>

\* start, line 92: pipe(spawnDaemon, Effect.forkIn(scope))
StartFork(p) ==
    /\ calls[p].pc = "startFork"
    /\ fibers' = Append(fibers, NewFiber(calls[p].daemon))
    /\ calls' = [calls EXCEPT ![p].pc = "startSet",
                              ![p].fiber = Len(fibers) + 1]
    /\ UNCHANGED <<daemons, cells, hist>>

\* start, line 93: SubscriptionRef.set(daemon.value.state, "running")
StartSet(p) ==
    /\ calls[p].pc = "startSet"
    /\ cells' = [cells EXCEPT ![calls[p].daemon.state] = "running"]
    /\ calls' = [calls EXCEPT ![p].pc = "startRecord"]
    /\ UNCHANGED <<daemons, fibers, hist>>

\* start, lines 95-98: MutableHashMap.set(daemons, name, {...})
StartRecord(p) ==
    /\ calls[p].pc = "startRecord"
    /\ daemons' = HashMapSet(calls[p].name,
                             StartEntry(calls[p].daemon, calls[p].fiber))
    /\ Return(p, "ok", daemons')
    /\ UNCHANGED <<cells, fibers>>

----------------------------------------------------------------------------
(* stop *)

\* stop, line 108: if (daemon.value.fiber)
StopHasFiber(daemon) == daemon.fiber # NoFiber

\* a stop that takes an unknown name for a stopped daemon
StopResult_Lenient(name) == "ok"

\* a stop that fails when there is no fiber to interrupt
StopResult_Strict(name) == DaemonNotFoundError

\* stop, lines 102-112: how a stop that interrupts nothing returns: it
\* fails on an unknown name (lines 103-105) and falls through the test of
\* line 108 otherwise
StopResult(name) ==
    IF ~Registered(name) THEN DaemonNotFoundError ELSE "ok"

\* stop, lines 102-108: look the name up; without a fiber nothing is done
StopCall(p, name) ==
    /\ ~Busy(p)
    /\ IF ~Registered(name)
       THEN /\ calls' = calls
            /\ hist' = Remember("stop", name, "", StopResult(name), daemons)
       ELSE IF StopHasFiber(daemons[name])
       THEN /\ calls' = [calls EXCEPT ![p] =
                   [IdleCall EXCEPT !.pc = "stopInterrupt", !.op = "stop",
                                    !.name = name,
                                    !.daemon = daemons[name]]]
            /\ hist' = hist
       ELSE /\ calls' = calls
            /\ hist' = Remember("stop", name, "", StopResult(name), daemons)
    /\ UNCHANGED <<daemons, cells, fibers>>

\* Fiber.interrupt(fiber): a fiber that is done is left as it is; a live
\* one ends interrupted, the scope of its Effect.scoped closes and the
\* finalizer of Command.start kills the process group of its child, whose
\* stderr is read no more
Interrupt(fiber) ==
    IF fiber.status = "done" THEN fiber
    ELSE [fiber EXCEPT !.status = "done",
                       !.exit = Interrupted,
                       !.child = IF fiber.child = "alive"
                                 THEN "killed" ELSE fiber.child,
                       !.code = 0, !.stderr = <<>>, !.exitCode = 0]

\* stop, line 109: yield* Fiber.interrupt(daemon.value.fiber), which
\* returns once the fiber has exited
StopInterrupt(p) ==
    /\ calls[p].pc = "stopInterrupt"
    /\ fibers' = [fibers EXCEPT ![calls[p].daemon.fiber] =
                     Interrupt(fibers[calls[p].daemon.fiber])]
    /\ calls' = [calls EXCEPT ![p].pc = "stopSet"]
    /\ UNCHANGED <<daemons, cells, hist>>

\* stop, line 110: SubscriptionRef.set(daemon.value.state, "stopped")
StopSet(p) ==
    /\ calls[p].pc = "stopSet"
    /\ cells' = [cells EXCEPT ![calls[p].daemon.state] = "stopped"]
    /\ Return(p, "ok", daemons)
    /\ UNCHANGED <<daemons, fibers>>

----------------------------------------------------------------------------
(* the scope of the service: scoped, line 38, and forkIn(scope), line 92 *)

\* a close that interrupts only the fibers the registry records
ScopeFibers_Recorded ==
    {daemons[n].fiber : n \in DOMAIN daemons} \ {NoFiber}

\* line 92: every supervising fiber is forked in the captured scope
ScopeFibers == 1..Len(fibers)

\* runtime.dispose() closes the scope of the service: the fibers forked
\* in it are interrupted, and with each the child it supervises is killed
ScopeClose ==
    /\ scope = "open"
    /\ scope' = "closed"
    /\ fibers' = [f \in 1..Len(fibers) |->
                     IF f \in ScopeFibers THEN Interrupt(fibers[f])
                     ELSE fibers[f]]
    /\ UNCHANGED <<daemons, cells, calls, hist, listed, mvars, effects, pvars>>

\* line 92 in a start that was in flight when the scope closed: a fiber
\* forked in a closed scope is interrupted at once
StartForkClosed(p) ==
    /\ calls[p].pc = "startFork"
    /\ scope = "closed"
    /\ fibers' = Append(fibers, Interrupt(NewFiber(calls[p].daemon)))
    /\ calls' = [calls EXCEPT ![p].pc = "startSet",
                              ![p].fiber = Len(fibers) + 1]
    /\ UNCHANGED <<daemons, cells, hist>>

----------------------------------------------------------------------------
(* list, and the caller that holds what it returned *)

\* list, line 115: MutableHashMap.values(daemons) is a new collection of
\* the entry objects the registry holds: per name the value of the object
\* and whether the registry still holds this very object (alias)
ListValues ==
    [n \in DOMAIN daemons |-> [value |-> daemons[n], alias |-> TRUE]]

\* list, lines 114-116
ListCall(p) ==
    /\ ~Busy(p)
    /\ listed' = ListValues
    /\ UNCHANGED <<vars, scope, mvars, effects, pvars>>

\* MutableHashMap.set(daemons, n, {...}) stores a new object under n: the
\* object a caller holds for n is in the registry no more
Replaced(n) ==
    IF n \in DOMAIN listed THEN [listed EXCEPT ![n].alias = FALSE]
    ELSE listed

\* the caller assigns the command property of an entry it was given; the
\* entry is the registry's own object as long as it was not replaced
CallerAssigns(n, command) ==
    /\ n \in DOMAIN listed
    /\ listed[n].value.command # command
    /\ listed' = [listed EXCEPT ![n].value.command = command]
    /\ daemons' = IF listed[n].alias
                  THEN [daemons EXCEPT ![n].command = command]
                  ELSE daemons
    /\ UNCHANGED <<cells, fibers, calls, hist, scope, mvars,
                   effects, pvars>>

\* the caller removes an entry from the collection it was given
CallerRemoves(n) ==
    /\ n \in DOMAIN listed
    /\ listed' = [m \in DOMAIN listed \ {n} |-> listed[m]]
    /\ UNCHANGED <<vars, scope, mvars, effects, pvars>>

----------------------------------------------------------------------------
(* the supervising fiber: spawnDaemon, lines 72-90 *)

\* a supervisor that takes exit code 0 for success
SpawnDaemonExit_ZeroSucceeds(daemon, exitCode, chunks) ==
    IF exitCode = 0 THEN [tag |-> "Success"]
    ELSE DaemonDiedError(daemon, exitCode, RunFold(<<>>, chunks))

\* lines 85-89: the failure the fiber ends with once the child has exited
SpawnDaemonExit(daemon, exitCode, chunks) ==
    DaemonDiedError(daemon, exitCode, RunFold(<<>>, chunks))

\* a supervisor that marks its daemon stopped when the child has died
CellsAfterDied_Stopped(f) ==
    [cells EXCEPT ![fibers[f].daemon.state] = "stopped"]

\* lines 85-89 touch neither the registry nor the state cell
CellsAfterDied(f) == cells

\* lines 73-76: Command.start spawns the child ...
FiberSpawn(f) ==
    /\ fibers[f].status = "forked"
    /\ fibers' = [fibers EXCEPT ![f].status = "exitCode",
                                ![f].child = "alive"]
    /\ UNCHANGED <<daemons, cells, calls, hist>>

\* ... or fails with a PlatformError (the command cannot be run)
FiberSpawnFail(f) ==
    /\ fibers[f].status = "forked"
    /\ fibers' = [fibers EXCEPT ![f].status = "done",
                                ![f].exit = PlatformError]
    /\ UNCHANGED <<daemons, cells, calls, hist>>

\* the child process exits by itself with some code and stderr output
ChildExit(f, code, out) ==
    /\ fibers[f].child = "alive"
    /\ fibers' = [fibers EXCEPT ![f].child = "exited",
                                ![f].code = code,
                                ![f].stderr = out]
    /\ UNCHANGED <<daemons, cells, calls, hist>>

\* line 78: yield* process.exitCode
FiberExitCode(f) ==
    /\ fibers[f].status = "exitCode"
    /\ fibers[f].child = "exited"
    /\ fibers' = [fibers EXCEPT ![f].status = "stderr",
                                ![f].exitCode = fibers[f].code]
    /\ UNCHANGED <<daemons, cells, calls, hist>>

\* lines 79-89: drain stderr, then fail with DaemonDiedError
FiberDied(f) ==
    /\ fibers[f].status = "stderr"
    /\ fibers' = [fibers EXCEPT ![f].status = "done",
                     ![f].exit = SpawnDaemonExit(fibers[f].daemon,
                                     fibers[f].exitCode, fibers[f].stderr)]
    /\ cells' = CellsAfterDied(f)
    /\ UNCHANGED <<daemons, calls, hist>>

----------------------------------------------------------------------------
(* The monitors: createNetworkMonitor (network.ts, held in                  *)
(* src/lib/color.test.ts, lines 877-982; the line numbers below are its)    *)
(* and createAudioMonitor (audio.ts, held in unnamed/part_003, lines        *)
(* 319-412)                                                                 *)

Kinds == {"network", "audio"}

\* setTimeout(startMonitor, 1000)
RestartDelay == 1000

\* the devices nmcli reports on
Devices == {"wlan0", "eth0"}

\* MonitorEvent, lines 487-496: the events parseMonitorLine makes of the
\* lines of its four forms
NetworkEvents ==
    [type : {"connected", "disconnected"}, device : Devices]
    \cup [type : {"connecting"}, device : Devices, ssid : {"Chili"}]
    \cup [type : {"connectivity"}, connectivity : {"full", "limited", "none"}]

\* AudioEventAction (audio.ts 252)
AudioEventActions == {"change", "new", "remove"}

\* AudioEventObject (audio.ts 257-265)
AudioEventObjects ==
    {"sink", "source", "server", "client", "card", "sink-input",
     "source-output", "module"}

\* AudioEvent (audio.ts 270-277) without its index, which the read loop
\* never reads
AudioEvents == [action : AudioEventActions, object : AudioEventObjects]

\* every event a parsed line can be
AllEvents(k) == IF k = "network" THEN NetworkEvents ELSE AudioEvents

\* one event for each branch of the read loop and one it has no branch for
Events(k) ==
    IF k = "network"
    THEN {[type |-> "connected", device |-> "wlan0"],
          [type |-> "disconnected", device |-> "wlan0"],
          [type |-> "connectivity", connectivity |-> "full"]}
    ELSE {[action |-> "change", object |-> "sink"],
          [action |-> "change", object |-> "server"],
          [action |-> "new", object |-> "sink"]}

\* the complete lines of one chunk of the watcher's output
Chunks(k) ==
    {<<e>> : e \in Events(k)} \cup {<<e1, e2>> : e1, e2 \in Events(k)}

\* how an awaited one-shot query ends: with a status, with null (only
\* getActiveConnection, lines 807-864, when no connection is active) or by
\* throwing
QueryResults(k) ==
    IF k = "network" THEN {"status", "null", "fail"} ELSE {"status", "fail"}

\* a child as Bun.spawn returns it, its read loop waiting for a chunk
NewProc ==
    [state |-> "running", onExit |-> "pending", rl |-> "waiting",
     lines |-> <<>>, query |-> "none"]

\* the monitor as create...Monitor leaves it when it returns the stop
\* function: init() has run up to its first await
Created(k) ==
    /\ kind = k
    /\ stopped = FALSE
    /\ procs = <<>>
    /\ timers = <<>>
    /\ signalInterval = "none"
    /\ currentDevice = "none"
    /\ initPc = IF k = "none" THEN "done" ELSE "query"
    /\ poll = "idle"
    /\ late = {}
    /\ effects = [handled |-> <<>>, called |-> <<>>]

\* options.onX?.(...): the callback is invoked; late remembers the ones
\* invoked after stop
Invoke(cb) == late' = IF stopped THEN late \cup {cb} ELSE late

\* a startMonitor without its first line
StartMonitorRuns_Always(st) == TRUE

\* startMonitor, line 886: if (stopped) return
StartMonitorRuns(st) == ~st

\* startMonitor, lines 885-943: spawn the watcher and start its read loop
StartMonitor ==
    /\ StartMonitorRuns(stopped) => Len(procs) < MaxProcs
    /\ procs' = IF StartMonitorRuns(stopped) THEN Append(procs, NewProc)
                ELSE procs

\* startSignalPolling, lines 945-956: signalInterval = setInterval(...)
StartSignalPolling == signalInterval' = "active"

\* the callbacks an ended query leads to, lines 923-928: the status is
\* passed on to cb (null is not), a failure goes to onError
Callback(res, cb) ==
    IF res = "status" THEN <<cb>>
    ELSE IF res = "fail" THEN <<"onError">>
    ELSE <<>>

\* the callback of Callback(res, cb) is invoked
Inform(res, cb) ==
    late' = IF stopped THEN late \cup {Callback(res, cb)[i] :
                                        i \in DOMAIN Callback(res, cb)}
            ELSE late

\* init, lines 959-972 (audio 394-403), from the end of its await on
InitReturns(res) ==
    /\ initPc = "query"
    /\ initPc' = "done"
    /\ IF kind = "network"
       THEN /\ Inform(res, "onConnect")
            /\ currentDevice' = IF res = "status" THEN "wlan0"
                                ELSE currentDevice
            /\ StartSignalPolling
       ELSE /\ Inform(res, "onVolumeChange")
            /\ UNCHANGED <<currentDevice, signalInterval>>
    /\ StartMonitor
    /\ UNCHANGED <<manager, kind, stopped, timers, poll>>

\* the watcher child exits by itself; the last child the bound allows
\* for does not, so that every exit can be followed by a restart
ProcExits(k) ==
    /\ k < MaxProcs
    /\ procs[k].state = "running"
    /\ procs' = [procs EXCEPT ![k].state = "exited"]
    /\ UNCHANGED <<manager, kind, stopped, timers, signalInterval,
                   currentDevice, initPc, poll, late>>

\* a monitor that gives up after its first restart
Restarts_Once(st, k) == ~st /\ k < 2

\* onExit, line 893: if (!stopped), for the k-th child
Restarts(st, k) == ~st

\* onExit, lines 891-896: schedule the restart
OnExit(k) ==
    /\ procs[k].state \in {"exited", "killed"}
    /\ procs[k].onExit = "pending"
    /\ IF Restarts(stopped, k)
       THEN /\ timers' = Append(timers, RestartDelay)
            /\ procs' = [procs EXCEPT ![k].onExit = "restart"]
       ELSE /\ timers' = timers
            /\ procs' = [procs EXCEPT ![k].onExit = "quiet"]
    /\ UNCHANGED <<manager, kind, stopped, signalInterval, currentDevice,
                   initPc, poll, late>>

\* a restart armed with setInterval: the timer stays and fires again
TimerFires_Interval ==
    /\ timers # <<>>
    /\ timers' = timers
    /\ StartMonitor
    /\ UNCHANGED <<manager, kind, stopped, signalInterval, currentDevice,
                   initPc, poll, late>>

\* the restart timeout fires: startMonitor()
TimerFires ==
    /\ timers # <<>>
    /\ timers' = Tail(timers)
    /\ StartMonitor
    /\ UNCHANGED <<manager, kind, stopped, signalInterval, currentDevice,
                   initPc, poll, late>>

\* readLoop, lines 910-915: the next chunk is there; a stopped monitor
\* leaves the loop
ChunkArrives(k, lines) ==
    /\ procs[k].rl = "waiting"
    /\ procs' = IF stopped THEN [procs EXCEPT ![k].rl = "ended"]
                ELSE [procs EXCEPT ![k].rl = "lines", ![k].lines = lines]
    /\ UNCHANGED <<manager, kind, stopped, timers, signalInterval,
                   currentDevice, initPc, poll, late>>

\* a read loop that asks after every change, whatever the object
QueryFor_AnyObject(k, event) ==
    IF k = "network"
    THEN IF event.type = "connected" /\ event.device # ""
         THEN "getActiveConnection" ELSE "none"
    ELSE IF event.action = "change" /\ event.object = "server"
         THEN "getDefaultSink"
         ELSE IF event.action = "change" THEN "getDefaultSinkVolume"
         ELSE "none"

\* a read loop that asks after every event that names a device
QueryFor_AnyDevice(k, event) ==
    IF k = "network"
    THEN IF "device" \in DOMAIN event THEN "getActiveConnection" ELSE "none"
    ELSE IF event.action = "change" /\ event.object = "sink"
         THEN "getDefaultSinkVolume"
         ELSE IF event.action = "change" /\ event.object = "server"
         THEN "getDefaultSink"
         ELSE "none"

\* the one-shot query the read loop awaits first for an event, "none" when
\* it awaits none: lines 921-923 (audio 359-371)
QueryFor(k, event) ==
    IF k = "network"
    THEN IF event.type = "connected" /\ event.device # ""
         THEN "getActiveConnection" ELSE "none"
    ELSE IF event.action = "change" /\ event.object = "sink"
         THEN "getDefaultSinkVolume"
         ELSE IF event.action = "change" /\ event.object = "server"
         THEN "getDefaultSink"
         ELSE "none"

\* currentDevice after an event: lines 922 and 930
DeviceAfter(k, event, device) ==
    IF k = "network"
    THEN CASE event.type = "connected" /\ event.device # "" -> event.device
           [] event.type = "disconnected" -> "none"
           [] OTHER -> device
    ELSE device

\* the callbacks the read loop invokes for an event without awaiting
\* anything: line 931
LineCalls(k, event) ==
    IF k = "network" /\ event.type = "disconnected" THEN <<"onDisconnect">>
    ELSE <<>>

\* readLoop, lines 917-933 (audio 355-381): the next line of the chunk
NextLine(k) ==
    /\ procs[k].rl = "lines"
    /\ IF procs[k].lines = <<>>
       THEN /\ procs' = [procs EXCEPT ![k].rl = "waiting"]
            /\ UNCHANGED <<currentDevice, late>>
       ELSE LET event == Head(procs[k].lines) IN
            /\ procs' = [procs EXCEPT
                   ![k].lines = Tail(procs[k].lines),
                   ![k].query = QueryFor(kind, event),
                   ![k].rl = IF QueryFor(kind, event) = "none" THEN "lines"
                             ELSE "query"]
            /\ currentDevice' = DeviceAfter(kind, event, currentDevice)
            /\ IF LineCalls(kind, event) # <<>>
               THEN Invoke(LineCalls(kind, event)[1])
               ELSE late' = late
    /\ UNCHANGED <<manager, kind, stopped, timers, signalInterval, initPc,
                   poll>>

\* the callback a query's result is passed to
CallbackOf(query) ==
    CASE query = "getActiveConnection" -> "onConnect"
      [] query = "getDefaultSinkVolume" -> "onVolumeChange"
      [] query = "getDefaultSink" -> "onDefaultSinkChange"

\* a read loop that asks for the volume whatever became of its question
\* for the default sink
NextQuery_Always(query, res) ==
    IF query = "getDefaultSink" THEN "getDefaultSinkVolume" ELSE "none"

\* the query awaited next in the same try block (audio 371-376): the
\* volume of the default sink once its name has been passed on
NextQuery(query, res) ==
    IF query = "getDefaultSink" /\ res = "status" THEN "getDefaultSinkVolume"
    ELSE "none"

\* readLoop, lines 923-928 (audio 362-378): the awaited query has ended
QueryReturns(k, res) ==
    /\ procs[k].rl = "query"
    /\ Inform(res, CallbackOf(procs[k].query))
    /\ procs' = IF NextQuery(procs[k].query, res) # "none"
                THEN [procs EXCEPT
                         ![k].query = NextQuery(procs[k].query, res)]
                ELSE [procs EXCEPT ![k].query = "none", ![k].rl = "lines"]
    /\ UNCHANGED <<manager, kind, stopped, timers, signalInterval,
                   currentDevice, initPc, poll>>

\* readLoop, line 910: the stream of a child that is gone ends
StreamEnds(k) ==
    /\ procs[k].rl = "waiting"
    /\ procs[k].state # "running"
    /\ procs' = [procs EXCEPT ![k].rl = "ended"]
    /\ UNCHANGED <<manager, kind, stopped, timers, signalInterval,
                   currentDevice, initPc, poll, late>>

\* readLoop, lines 935-939: reading the stream throws
StreamFails(k) ==
    /\ procs[k].rl = "waiting"
    /\ procs' = [procs EXCEPT ![k].rl = "ended"]
    /\ IF stopped THEN late' = late ELSE Invoke("onError")
    /\ UNCHANGED <<manager, kind, stopped, timers, signalInterval,
                   currentDevice, initPc, poll>>

\* the interval callback, lines 948-951, when it does not return at once
Tick ==
    /\ signalInterval = "active"
    /\ poll = "idle"
    /\ ~(stopped \/ currentDevice = "none")
    /\ poll' = "reading"
    /\ UNCHANGED <<manager, kind, stopped, procs, timers, signalInterval,
                   currentDevice, initPc, late>>

\* the interval callback, lines 951-954: readWifiSignal has ended
SignalReturns(res) ==
    /\ poll = "reading"
    /\ poll' = "idle"
    /\ IF res = "status" THEN Invoke("onSignalChange") ELSE late' = late
    /\ UNCHANGED <<manager, kind, stopped, procs, timers, signalInterval,
                   currentDevice, initPc>>

\* proc?.kill(), line 979, on the children ps: the last one spawned is
\* killed if it still runs
Killed(ps) ==
    IF ps # <<>> /\ ps[Len(ps)].state = "running"
    THEN [ps EXCEPT ![Len(ps)].state = "killed"]
    ELSE ps

\* if (signalInterval) clearInterval(signalInterval), line 980
Cleared(interval) == IF interval = "active" THEN "cleared" ELSE interval

\* the stop function, lines 977-981 (audio 408-411)
Stop ==
    /\ kind \in Kinds
    /\ stopped' = TRUE
    /\ procs' = Killed(procs)
    /\ signalInterval' = Cleared(signalInterval)
    /\ UNCHANGED <<manager, kind, timers, currentDevice, initPc, poll,
                   late>>

----------------------------------------------------------------------------
(* Specifications *)

\* no read loop is fed by itself
NoReader ==
    [text |-> <<>>, content |-> <<>>, fed |-> 0, pending |-> <<>>,
     buffer |-> <<>>, passed |-> <<>>]

\* no line is given to the parser by itself
NoLine == [line |-> <<>>, done |-> FALSE, event |-> <<>>]

\* debounce, line 36: let timeoutId (0 for undefined); no timeout is
\* pending, nothing was called
NoSchedule ==
    [now |-> 0, timeoutId |-> 0, timers |-> {}, called |-> <<>>,
     invoked |-> <<>>, cancelled |-> {}]

\* DaemonManager scoped, line 37: MutableHashMap.empty()
Init ==
    /\ daemons = <<>>
    /\ cells = <<>>
    /\ fibers = <<>>
    /\ calls = [p \in Callers |-> IdleCall]
    /\ hist = <<>>
    /\ scope = "open"
    /\ listed = <<>>
    /\ Created("none")
    /\ reader = NoReader
    /\ parsed = NoLine
    /\ sched = NoSchedule

\* no operation is in flight
Quiet == \A q \in Callers : ~Busy(q)

\* one caller, one operation at a time; the fibers and their children run
\* beside it
Next ==
    \/ \E name \in Names, command \in Commands :
           Quiet /\ SetCall("c1", name, command) /\ UNCHANGED rest
    \/ \E name \in Names : Quiet /\ StartCall("c1", name) /\ UNCHANGED rest
    \/ \E name \in Names : Quiet /\ StopCall("c1", name) /\ UNCHANGED rest
    \/ SetMake("c1") /\ UNCHANGED rest
    \/ StartGet("c1") /\ UNCHANGED rest
    \/ StartFork("c1") /\ UNCHANGED rest
    \/ StartSet("c1") /\ UNCHANGED rest
    \/ StartRecord("c1") /\ UNCHANGED rest
    \/ StopInterrupt("c1") /\ UNCHANGED rest
    \/ StopSet("c1") /\ UNCHANGED rest
    \/ \E f \in 1..Len(fibers) : FiberSpawn(f) /\ UNCHANGED rest
    \/ \E f \in 1..Len(fibers) : FiberSpawnFail(f) /\ UNCHANGED rest
    \/ \E f \in 1..Len(fibers), code \in ExitCodes, out \in StderrOutputs :
           ChildExit(f, code, out) /\ UNCHANGED rest
    \/ \E f \in 1..Len(fibers) : FiberExitCode(f) /\ UNCHANGED rest
    \/ \E f \in 1..Len(fibers) : FiberDied(f) /\ UNCHANGED rest

Spec == Init /\ [][Next]_<<vars, rest>>

\* the callers are interchangeable: "c2" calls only while "c1" is busy
MayCall(p) == p = "c1" \/ Busy("c1")

\* operations of several callers interleave at their yield points; the
\* children exit with one code and no output
NextConc ==
    \/ \E p \in Callers, name \in Names, command \in Commands :
           MayCall(p) /\ SetCall(p, name, command) /\ UNCHANGED rest
    \/ \E p \in Callers, name \in Names : MayCall(p) /\ StartCall(p, name) /\ UNCHANGED rest
    \/ \E p \in Callers, name \in Names : MayCall(p) /\ StopCall(p, name) /\ UNCHANGED rest
    \/ \E p \in Callers : SetMake(p) /\ UNCHANGED rest
    \/ \E p \in Callers : StartGet(p) /\ UNCHANGED rest
    \/ \E p \in Callers : StartFork(p) /\ UNCHANGED rest
    \/ \E p \in Callers : StartSet(p) /\ UNCHANGED rest
    \/ \E p \in Callers : StartRecord(p) /\ UNCHANGED rest
    \/ \E p \in Callers : StopInterrupt(p) /\ UNCHANGED rest
    \/ \E p \in Callers : StopSet(p) /\ UNCHANGED rest
    \/ \E f \in 1..Len(fibers) : FiberSpawn(f) /\ UNCHANGED rest
    \/ \E f \in 1..Len(fibers) : FiberSpawnFail(f) /\ UNCHANGED rest
    \/ \E f \in 1..Len(fibers) : ChildExit(f, 1, <<>>) /\ UNCHANGED rest
    \/ \E f \in 1..Len(fibers) : FiberExitCode(f) /\ UNCHANGED rest
    \/ \E f \in 1..Len(fibers) : FiberDied(f) /\ UNCHANGED rest

SpecConc == Init /\ [][NextConc]_<<vars, rest>>

\* one caller and several names, so that a name is unknown beside a
\* registered one; the forked fibers have not run yet
NextNames ==
    \/ \E name \in AllNames, command \in Commands :
           Quiet /\ SetCall("c1", name, command) /\ UNCHANGED rest
    \/ \E name \in AllNames : Quiet /\ StartCall("c1", name) /\ UNCHANGED rest
    \/ \E name \in AllNames : Quiet /\ StopCall("c1", name) /\ UNCHANGED rest
    \/ SetMake("c1") /\ UNCHANGED rest
    \/ StartGet("c1") /\ UNCHANGED rest
    \/ StartFork("c1") /\ UNCHANGED rest
    \/ StartSet("c1") /\ UNCHANGED rest
    \/ StartRecord("c1") /\ UNCHANGED rest
    \/ StopInterrupt("c1") /\ UNCHANGED rest
    \/ StopSet("c1") /\ UNCHANGED rest

SpecNames == Init /\ [][NextNames]_<<vars, rest>>

\* one caller that also lists the registry and writes to what it was
\* given, between its operations
NextList ==
    \/ \E name \in Names, command \in Commands :
           /\ Quiet /\ SetCall("c1", name, command)
           /\ listed' = IF Registered(name) THEN Replaced(name) ELSE listed
           /\ UNCHANGED <<scope, mvars, effects, pvars>>
    \/ \E name \in Names : Quiet /\ StartCall("c1", name) /\ UNCHANGED rest
    \/ \E name \in Names : Quiet /\ StopCall("c1", name) /\ UNCHANGED rest
    \/ SetMake("c1") /\ listed' = Replaced(calls["c1"].name)
                     /\ UNCHANGED <<scope, mvars, effects, pvars>>
    \/ StartGet("c1") /\ UNCHANGED rest
    \/ StartFork("c1") /\ UNCHANGED rest
    \/ StartSet("c1") /\ UNCHANGED rest
    \/ StartRecord("c1") /\ listed' = Replaced(calls["c1"].name)
                         /\ UNCHANGED <<scope, mvars, effects, pvars>>
    \/ StopInterrupt("c1") /\ UNCHANGED rest
    \/ StopSet("c1") /\ UNCHANGED rest
    \/ \E f \in 1..Len(fibers) : FiberSpawn(f) /\ UNCHANGED rest
    \/ Quiet /\ ListCall("c1")
    \/ \E name \in Names, command \in Commands :
           Quiet /\ CallerAssigns(name, command)
    \/ \E name \in Names : Quiet /\ CallerRemoves(name)

SpecList == Init /\ [][NextList]_<<vars, rest>>

\* one caller until the runtime is disposed of; an operation in flight at
\* that time runs on; the children exit with one code and no output
NextScope ==
    \/ \E name \in Names, command \in Commands :
           /\ scope = "open" /\ Quiet
           /\ SetCall("c1", name, command) /\ UNCHANGED rest
    \/ \E name \in Names :
           scope = "open" /\ Quiet /\ StartCall("c1", name) /\ UNCHANGED rest
    \/ \E name \in Names :
           scope = "open" /\ Quiet /\ StopCall("c1", name) /\ UNCHANGED rest
    \/ SetMake("c1") /\ UNCHANGED rest
    \/ StartGet("c1") /\ UNCHANGED rest
    \/ scope = "open" /\ StartFork("c1") /\ UNCHANGED rest
    \/ StartForkClosed("c1") /\ UNCHANGED rest
    \/ StartSet("c1") /\ UNCHANGED rest
    \/ StartRecord("c1") /\ UNCHANGED rest
    \/ StopInterrupt("c1") /\ UNCHANGED rest
    \/ StopSet("c1") /\ UNCHANGED rest
    \/ \E f \in 1..Len(fibers) : FiberSpawn(f) /\ UNCHANGED rest
    \/ \E f \in 1..Len(fibers) : FiberSpawnFail(f) /\ UNCHANGED rest
    \/ \E f \in 1..Len(fibers) : ChildExit(f, 1, <<>>) /\ UNCHANGED rest
    \/ \E f \in 1..Len(fibers) : FiberExitCode(f) /\ UNCHANGED rest
    \/ \E f \in 1..Len(fibers) : FiberDied(f) /\ UNCHANGED rest
    \/ ScopeClose

SpecScope == Init /\ [][NextScope]_<<vars, rest>>

\* a monitor has just been created beside a new manager
InitMon ==
    /\ daemons = <<>>
    /\ cells = <<>>
    /\ fibers = <<>>
    /\ calls = [p \in Callers |-> IdleCall]
    /\ hist = <<>>
    /\ scope = "open"
    /\ listed = <<>>
    /\ \E k \in Kinds : Created(k)
    /\ reader = NoReader
    /\ parsed = NoLine
    /\ sched = NoSchedule

\* the life of a monitor: its init, its watcher children and their read
\* loops, the timers, and the caller's stop at any time
NextMon ==
    \/ \E res \in QueryResults(kind) : InitReturns(res) /\ UNCHANGED effects
    \/ \E k \in 1..Len(procs) : ProcExits(k) /\ UNCHANGED effects
    \/ \E k \in 1..Len(procs) : OnExit(k) /\ UNCHANGED effects
    \/ TimerFires /\ UNCHANGED effects
    \/ \E k \in 1..Len(procs), lines \in Chunks(kind) : ChunkArrives(k, lines)
           /\ UNCHANGED effects
    \/ \E k \in 1..Len(procs) : NextLine(k) /\ UNCHANGED effects
    \/ \E k \in 1..Len(procs), res \in QueryResults(kind) :
           QueryReturns(k, res) /\ UNCHANGED effects
    \/ \E k \in 1..Len(procs) : StreamEnds(k) /\ UNCHANGED effects
    \/ \E k \in 1..Len(procs) : StreamFails(k) /\ UNCHANGED effects
    \/ Tick /\ UNCHANGED effects
    \/ \E res \in {"status", "null"} : SignalReturns(res) /\ UNCHANGED effects
    \/ Stop /\ UNCHANGED effects

SpecMon == InitMon /\ [][NextMon]_<<vars, rest>>

\* the restarts of a monitor: init, the children, which write one line
\* at a time while they run, and their exits, the read loops, the restart
\* timer and the caller's stop; the poller is left out
NextRestart ==
    \/ \E res \in QueryResults(kind) : InitReturns(res) /\ UNCHANGED effects
    \/ \E k \in 1..Len(procs) : ProcExits(k) /\ UNCHANGED effects
    \/ \E k \in 1..Len(procs) : OnExit(k) /\ UNCHANGED effects
    \/ TimerFires /\ UNCHANGED effects
    \/ \E k \in 1..Len(procs), event \in Events(kind) :
           procs[k].state = "running" /\ ChunkArrives(k, <<event>>)
           /\ UNCHANGED effects
    \/ \E k \in 1..Len(procs) : NextLine(k) /\ UNCHANGED effects
    \/ \E k \in 1..Len(procs), res \in QueryResults(kind) :
           QueryReturns(k, res) /\ UNCHANGED effects
    \/ \E k \in 1..Len(procs) : StreamEnds(k) /\ UNCHANGED effects
    \/ Stop /\ UNCHANGED effects

\* the event loop runs the exit handler of a child that is gone and the
\* callback of a timeout that is due
SpecRestart ==
    /\ InitMon
    /\ [][NextRestart]_<<vars, rest>>
    /\ \A k \in 1..MaxProcs :
           WF_<<vars, rest>>(k <= Len(procs) /\ OnExit(k)
                                /\ UNCHANGED effects)
    /\ WF_<<vars, rest>>(TimerFires /\ UNCHANGED effects)

TypeOK ==
    /\ DOMAIN daemons \subseteq AllNames
    /\ \A n \in DOMAIN daemons :
           /\ daemons[n].name = n
           /\ daemons[n].command \in Commands
           /\ daemons[n].state \in 1..Len(cells)
           /\ daemons[n].fiber \in 0..Len(fibers)
    /\ \A c \in 1..Len(cells) : cells[c] \in DaemonState
    /\ Len(fibers) <= MaxFibers
    /\ Len(cells) <= MaxCells
    /\ Len(hist) <= 2

----------------------------------------------------------------------------
(* Observations used by the properties *)

\* the operation that returned last, and the one before it
Last == hist[Len(hist)]
Prev == hist[Len(hist) - 1]

\* the last operation was op(name) and it succeeded
LastOk(op, name) ==
    /\ Len(hist) >= 1
    /\ Last.op = op /\ Last.name = name /\ Last.res = "ok"

\* the last two operations were op1(name) then op2(name), both successful
LastTwoOk(op1, op2, name) ==
    /\ Len(hist) >= 2
    /\ Prev.op = op1 /\ Prev.name = name /\ Prev.res = "ok"
    /\ LastOk(op2, name)

\* the supervising fibers forked for a name
FibersOf(name) ==
    {f \in 1..Len(fibers) : fibers[f].daemon.name = name}

\* this step returns from an operation op of caller p that had yielded
Returns(p, op) ==
    /\ calls[p].op = op
    /\ calls'[p].pc = "idle"

----------------------------------------------------------------------------
(* Properties *)

\* C1: whenever stop(name) has completed successfully, the daemon's
\* observable state is "stopped", for every sequence of set/start/stop.
C1_StopLeavesStopped ==
    \A n \in DOMAIN daemons :
        (Quiet /\ LastOk("stop", n)) => StateOf(n) = "stopped"

\* C2: set on a registered name preserves the task handle: the handle
\* listed after set is the handle listed after the preceding operation on
\* that name.
C2_SetPreservesHandle ==
    \A n \in DOMAIN daemons :
        (/\ Len(hist) >= 2
         /\ Prev.name = n /\ Prev.res = "ok"
         /\ LastOk("set", n)) => Last.handle = Prev.handle

\* C3: set(name, cmd2) on a registered name stores cmd2 and keeps the same
\* state cell with its value: no step replaces the cell of a registered
\* entry, a set step changes no cell, and after start then set the state
\* read from the entry is "running".
C3_SetKeepsStateCell ==
    /\ [][\A n \in DOMAIN daemons :
              /\ daemons'[n].state = daemons[n].state
              /\ (hist' # hist /\ LastOk("set", n)')
                     => /\ daemons'[n].command = Last'.command
                        /\ cells' = cells]_vars
    /\ [](\A n \in DOMAIN daemons :
              (Quiet /\ LastTwoOk("start", "set", n))
                  => /\ StateOf(n) = "running"
                     /\ daemons[n].command = Last.command)

C3_Witness ==
    /\ Quiet
    /\ LastTwoOk("start", "set", "a")
    /\ Prev.handle # NoFiber
    /\ fibers[Prev.handle].daemon.command # Last.command
    /\ StateOf("a") = "running"

\* C4: after stop(name) has returned successfully, no child spawned by an
\* earlier start(name) is still running.
C4_StopLeavesNoChild ==
    \A n \in DOMAIN daemons :
        (Quiet /\ LastOk("stop", n))
            => \A f \in FibersOf(n) : fibers[f].child # "alive"

\* C5: start(name) directly followed by start(name) forks nothing the
\* second time and lists the same handle as after the first.
C5_StartIdempotent ==
    [][\A p \in Callers : \A n \in DOMAIN daemons :
           (Returns(p, "start") /\ calls[p].name = n /\ LastOk("start", n))
               => /\ calls[p].fiber = NoFiber
                  /\ fibers' = fibers
                  /\ daemons'[n].fiber = Last.handle]_vars

C5_Witness ==
    /\ Quiet
    /\ LastTwoOk("start", "start", "a")
    /\ Last.handle # NoFiber
    /\ Last.handle = Prev.handle

\* C6: between operations, an entry has a task handle if and only if its
\* observable state is "running".
C6_HandleIffRunning ==
    Quiet => \A n \in DOMAIN daemons :
                 (daemons[n].fiber # NoFiber) <=> (StateOf(n) = "running")

\* C7: concurrent start calls on one name behave as if serialized: at no
\* time does a name have more than one live supervising fiber.
C7_OneSupervisor ==
    \A n \in DOMAIN daemons :
        Cardinality({f \in FibersOf(n) : fibers[f].status # "done"}) <= 1

\* the state start(p) read, or is about to read, was "stopped"
StartedFromStopped(p) ==
    \/ calls[p].state = "stopped"
    \/ /\ calls[p].pc = "startGet"
       /\ CellGet(calls[p].daemon.state) = "stopped"

\* C8: start(name) on a registered daemon found "stopped" returns with the
\* state "running" and the handle of the fiber it forked recorded on the
\* entry, and its return never waits for the fiber or its child.
C8_StartReturnsRunning ==
    /\ [][\A p \in Callers : \A n \in DOMAIN daemons :
              (Returns(p, "start") /\ calls[p].name = n
                  /\ StartedFromStopped(p))
                  => /\ StateOf(n)' = "running"
                     /\ calls[p].fiber # NoFiber
                     /\ daemons'[n].fiber = calls[p].fiber
                     /\ Last'.res = "ok"]_vars
    /\ [](\A p \in Callers :
              /\ calls[p].pc = "startSet" => ENABLED StartSet(p)
              /\ calls[p].pc = "startRecord" => ENABLED StartRecord(p))

C8_Witness ==
    /\ Quiet
    /\ LastOk("start", "a")
    /\ Last.handle # NoFiber
    /\ daemons["a"].fiber = Last.handle
    /\ fibers[Last.handle].exit = PlatformError
    /\ StateOf("a") = "running"

\* the text of a stderr output: its chunks put end to end
RECURSIVE Text(_)
Text(chunks) ==
    IF chunks = <<>> THEN <<>>
    ELSE Text(SubSeq(chunks, 1, Len(chunks) - 1)) \o chunks[Len(chunks)]

\* C9: a supervising fiber never completes successfully, and one that ends
\* uninterrupted after its child exited with code c ends with a
\* DaemonDiedError carrying exitCode = c and the child's stderr text.
C9_ExitIsDaemonDied ==
    \A f \in 1..Len(fibers) :
        fibers[f].status = "done" =>
            /\ fibers[f].exit.tag \in
                   {"DaemonDiedError", "PlatformError", "Interrupted"}
            /\ fibers[f].exit.tag = "DaemonDiedError"
                   => fibers[f].child = "exited"
            /\ (fibers[f].child = "exited" /\ fibers[f].exit # Interrupted)
                   => fibers[f].exit =
                          [tag |-> "DaemonDiedError",
                           daemon |-> fibers[f].daemon,
                           exitCode |-> fibers[f].code,
                           message |-> Text(fibers[f].stderr)]

C9_Witness ==
    \E f \in 1..Len(fibers) :
        /\ fibers[f].status = "done"
        /\ fibers[f].exit.tag = "DaemonDiedError"
        /\ fibers[f].exit.exitCode = 0
        /\ fibers[f].exit.message = <<"e", "r", "r">>

\* fiber f ends with a DaemonDiedError in this step
Dies(f) ==
    /\ fibers[f].status # "done"
    /\ fibers'[f].status = "done"
    /\ fibers'[f].exit.tag = "DaemonDiedError"

\* C10: the step in which a supervising fiber ends with DaemonDied changes
\* no state cell and no registry entry, and a cell goes from "running" to
\* "stopped" only in the returning step of a stop on that daemon.
C10_DiedKeepsState ==
    [][/\ \A f \in 1..Len(fibers) :
              Dies(f) => (cells' = cells /\ daemons' = daemons)
       /\ \A c \in 1..Len(cells) :
              (cells[c] = "running" /\ cells'[c] = "stopped")
                  => \E p \in Callers :
                         /\ Returns(p, "stop")
                         /\ calls[p].daemon.state = c]_vars

C10_Witness ==
    /\ Quiet
    /\ \E f \in 1..Len(fibers) :
           /\ fibers[f].exit.tag = "DaemonDiedError"
           /\ "a" \in DOMAIN daemons
           /\ daemons["a"].fiber = f
           /\ StateOf("a") = "running"

\* this step completes an operation op on name n
Completes(op, n) ==
    /\ hist' # hist
    /\ Last'.op = op
    /\ Last'.name = n

\* C11: start or stop on a name never passed to set fails with
\* DaemonNotFound in one step that forks nothing and changes neither the
\* registry nor a state cell, and only a call on such a name fails so.
C11_UnknownNameFails ==
    [][\A n \in AllNames : \A op \in {"start", "stop"} :
           Completes(op, n) =>
               /\ ~Registered(n) =>
                      /\ Last'.res = DaemonNotFoundError
                      /\ daemons' = daemons
                      /\ cells' = cells
                      /\ fibers' = fibers
                      /\ calls' = calls
               /\ Last'.res = DaemonNotFoundError => ~Registered(n)]_vars

\* start and stop have both failed on "b" while "a" was registered and
\* started
C11_Witness ==
    /\ Quiet
    /\ Len(hist) = 2
    /\ Prev.op = "start" /\ Prev.name = "b"
    /\ Prev.res = DaemonNotFoundError
    /\ Last.op = "stop" /\ Last.name = "b"
    /\ Last.res = DaemonNotFoundError
    /\ DOMAIN daemons = {"a"}
    /\ daemons["a"].fiber # NoFiber

\* C12: stop on a registered daemon without a task handle succeeds in one
\* step that interrupts no fiber and changes neither the entry nor its
\* state.
C12_StopWithoutHandle ==
    [][\A n \in DOMAIN daemons :
           (Completes("stop", n) /\ ~StopHasFiber(daemons[n])
               /\ \A p \in Callers : ~Returns(p, "stop"))
               => /\ Last'.res = "ok"
                  /\ daemons' = daemons
                  /\ cells' = cells
                  /\ fibers' = fibers
                  /\ calls' = calls]_vars

\* stop has succeeded on a daemon that was set and never started
C12_Witness ==
    /\ Quiet
    /\ LastTwoOk("set", "stop", "a")
    /\ Prev.handle = NoFiber
    /\ daemons["a"].fiber = NoFiber
    /\ fibers = <<>>
    /\ StateOf("a") = "stopped"

\* C13: set on an unregistered name returns with an entry of that name and
\* command whose state is "stopped", read from a cell no other entry has,
\* and which has no task handle; the operation forks nothing and leaves
\* every other entry and cell as it was.
C13_SetCreatesStopped ==
    [][\A p \in Callers : \A n \in AllNames :
           (Returns(p, "set") /\ calls[p].name = n /\ ~Registered(n))
               => /\ Last'.res = "ok"
                  /\ n \in DOMAIN daemons'
                  /\ daemons'[n].name = n
                  /\ daemons'[n].command = calls[p].command
                  /\ daemons'[n].fiber = NoFiber
                  /\ StateOf(n)' = "stopped"
                  /\ daemons'[n].state \notin 1..Len(cells)
                  /\ fibers' = fibers
                  /\ \A m \in DOMAIN daemons : daemons'[m] = daemons[m]
                  /\ \A c \in 1..Len(cells) : cells'[c] = cells[c]]_vars

\* "b" has just been registered beside "a", which is running
C13_Witness ==
    /\ Quiet
    /\ LastOk("set", "b")
    /\ DOMAIN daemons = {"a", "b"}
    /\ daemons["b"].fiber = NoFiber
    /\ StateOf("b") = "stopped"
    /\ StateOf("a") = "running"
    /\ daemons["a"].state # daemons["b"].state

\* the entries list() returns for name n
Listed(n) == {d \in list : d.name = n}

\* C14: list() returns exactly one entry for each name set has been
\* completed with and none for any other: it is empty before the first
\* set has returned, a returning set leaves its name registered, only a
\* set adds a name, and no step removes one.
C14_OneEntryPerName ==
    /\ [](/\ \A n \in AllNames :
                Cardinality(Listed(n)) = (IF Registered(n) THEN 1 ELSE 0)
           /\ Cardinality(list) = Cardinality(DOMAIN daemons)
           /\ hist = <<>> => list = {})
    /\ [][/\ DOMAIN daemons \subseteq DOMAIN daemons'
           /\ \A n \in AllNames :
                  /\ (Completes("set", n) /\ Last'.res = "ok")
                         => Registered(n)'
                  /\ (~Registered(n) /\ Registered(n)')
                         => (Completes("set", n) /\ Last'.res = "ok")]_vars

\* two names are listed once each after a second set on "a", one of them
\* started and stopped
C14_Witness ==
    /\ Quiet
    /\ LastTwoOk("set", "set", "a")
    /\ Prev.command # Last.command
    /\ Cardinality(list) = 2
    /\ \E d \in Listed("b") : d.fiber # NoFiber /\ cells[d.state] = "stopped"
    /\ Cardinality(Listed("a")) = 1

\* the caller writes to what list() gave it in this step
CallerWrites ==
    \/ \E n \in Names, command \in Commands : CallerAssigns(n, command)
    \/ \E n \in Names : CallerRemoves(n)

\* C15: what list() returned is a snapshot: the collection a caller holds
\* and the values of its entries change only by a new list() or by the
\* caller's own writes, and a write of the caller to the collection or to
\* one of its entries changes nothing the registry holds.
C15_ListIsSnapshot ==
    [][/\ \A n \in DOMAIN listed :
              (n \notin DOMAIN listed' \/ listed'[n].value # listed[n].value)
                  => (ListCall("c1") \/ CallerWrites)
       /\ CallerWrites => daemons' = daemons]_<<vars, rest>>

\* the fibers no entry of the registry records
Unrecorded ==
    {f \in 1..Len(fibers) : \A n \in DOMAIN daemons : daemons[n].fiber # f}

C17_RestartsAfterExit ==
    /\ [](\A i \in 1..Len(timers) : timers[i] = 1000)
    /\ \A k \in 1..(MaxProcs - 1) :
           (k <= Len(procs) /\ procs[k].state = "exited" /\ ~stopped)
               ~> (stopped \/ Len(procs) > k)

\* a third child runs after the first two have exited and were replaced
C17_Witness ==
    /\ ~stopped
    /\ Len(procs) = 3
    /\ procs[1].state = "exited" /\ procs[1].onExit = "restart"
    /\ procs[2].state = "exited" /\ procs[2].onExit = "restart"
    /\ procs[3].state = "running"
    /\ timers = <<>>

\* C18: once the stop function has been called no watcher child is
\* spawned, whatever was pending at the call: the init, a running child
\* or a restart timeout.
C18_NoSpawnAfterStop ==
    [][stopped => Len(procs') = Len(procs)]_<<vars, rest>>

\* the monitor was stopped while the restart of its first child was
\* pending, and the timeout has fired since without a spawn
C18_Witness ==
    /\ stopped
    /\ initPc = "done"
    /\ Len(procs) = 1
    /\ procs[1].state = "exited"
    /\ procs[1].onExit = "restart"
    /\ timers = <<>>

\* C19: after the stop function has been called none of the callbacks is
\* invoked, not even by an initial query, a refresh query or a signal
\* read that was in flight at the call.
C19_NoCallbackAfterStop == late = {}

\* C20: after the stop function has been called no timer of the monitor
\* stays scheduled: no restart timeout is pending and the signal polling
\* interval is not active.
C20_NoTimerAfterStop ==
    stopped => (timers = <<>> /\ signalInterval # "active")

----------------------------------------------------------------------------
(* A watched monitor: every step records, in order, the one-shot queries   *)
(* it issued and the callbacks it invoked                                   *)

\* a step that handled no event and called cs
Called(cs) == [handled |-> <<>>, called |-> cs]

\* the query a step starts to await
Issued(query) == IF query = "none" THEN <<>> ELSE <<query>>

\* init, lines 961-967 (audio 396-400): the callback of the first status
InitEffects(res) ==
    Called(Callback(res, IF kind = "network" THEN "onConnect"
                         ELSE "onVolumeChange"))

\* readLoop, lines 917-933 (audio 355-381): the event of the next line and
\* what it leads to before the loop awaits anything or goes on
LineEffects(k) ==
    IF procs[k].lines = <<>> THEN Called(<<>>)
    ELSE [handled |-> <<Head(procs[k].lines)>>,
          called |-> LineCalls(kind, Head(procs[k].lines))
                     \o Issued(QueryFor(kind, Head(procs[k].lines)))]

\* readLoop, lines 923-928 (audio 362-378): what the end of a query leads to
QueryEffects(k, res) ==
    Called(Callback(res, CallbackOf(procs[k].query))
           \o Issued(NextQuery(procs[k].query, res)))

\* one watcher child that runs until the monitor is stopped and writes one
\* line at a time, any line its parser knows; init, the read loop, the
\* poller and the caller's stop
NextWatch ==
    \/ \E res \in QueryResults(kind) :
           InitReturns(res) /\ effects' = InitEffects(res)
    \/ \E k \in 1..Len(procs), event \in AllEvents(kind) :
           /\ procs[k].state = "running"
           /\ ChunkArrives(k, <<event>>) /\ effects' = Called(<<>>)
    \/ \E k \in 1..Len(procs) : NextLine(k) /\ effects' = LineEffects(k)
    \/ \E k \in 1..Len(procs), res \in QueryResults(kind) :
           QueryReturns(k, res) /\ effects' = QueryEffects(k, res)
    \/ \E k \in 1..Len(procs) : StreamEnds(k) /\ effects' = Called(<<>>)
    \/ \E k \in 1..Len(procs) :
           /\ StreamFails(k)
           /\ effects' = Called(IF stopped THEN <<>> ELSE <<"onError">>)
    \/ Tick /\ effects' = Called(<<"readWifiSignal">>)
    \/ \E res \in {"status", "null"} :
           /\ SignalReturns(res)
           /\ effects' = Called(IF res = "status" THEN <<"onSignalChange">>
                                ELSE <<>>)
    \/ Stop /\ effects' = Called(<<>>)

SpecWatch == InitMon /\ [][NextWatch]_<<vars, rest>>

----------------------------------------------------------------------------
(* C21 *)

\* C21: the stop function is idempotent: called again on a stopped
\* monitor, at any later point of its life, it finds nothing left to do:
\* no child to kill and no interval to clear, so that two calls leave the
\* monitor as one call does
C21_StopIsIdempotent ==
    stopped => Killed(procs) = procs /\ Cleared(signalInterval) = signalInterval

----------------------------------------------------------------------------
(* The decoding of the watcher's stdout into lines: readLoop, lines        *)
(* 904-919, taken by itself on one content cut into chunks                  *)

MaxLen == 4

\* the characters of a content: two letters, the newline and "E", which
\* stands for a character of two bytes
Chars == {"a", "b", "\n", "E"}

\* the UTF-8 bytes of a character
Utf8(c) == IF c = "E" THEN <<"c3", "a9">> ELSE <<c>>

RECURSIVE Encode(_)
\* the bytes the watcher writes for a text
Encode(text) ==
    IF text = <<>> THEN <<>> ELSE Utf8(Head(text)) \o Encode(Tail(text))

\* the texts a watcher writes
Texts == UNION {[1..n -> Chars] : n \in 0..MaxLen}

RECURSIVE Decode(_, _)
\* decoder.decode(chunk, { stream: true }), line 913: the characters that
\* are complete with these bytes, and the bytes of an incomplete last one,
\* which the decoder keeps; a lead byte not followed by its continuation
\* becomes the replacement character "?"
Decode(pending, bytes) ==
    IF bytes = <<>> THEN [text |-> <<>>, pending |-> pending]
    ELSE IF pending = <<>>
         THEN IF Head(bytes) = "c3" THEN Decode(<<"c3">>, Tail(bytes))
              ELSE LET after == Decode(<<>>, Tail(bytes))
                   IN [after EXCEPT !.text = <<Head(bytes)>> \o after.text]
         ELSE IF Head(bytes) = "a9"
              THEN LET after == Decode(<<>>, Tail(bytes))
                   IN [after EXCEPT !.text = <<"E">> \o after.text]
              ELSE LET after == Decode(<<>>, bytes)
                   IN [after EXCEPT !.text = <<"?">> \o after.text]

RECURSIVE Split(_)
\* buffer.split("\n"), line 914: the segments between the newlines, at
\* least one
Split(text) ==
    IF text = <<>> THEN << <<>> >>
    ELSE IF Head(text) = "\n" THEN << <<>> >> \o Split(Tail(text))
         ELSE LET after == Split(Tail(text))
              IN << <<Head(text)>> \o after[1] >> \o Tail(after)

\* a read loop that keeps nothing of a chunk
Retained_Nothing(lines) == <<>>

\* buffer = lines.pop() ?? "", line 915: the last segment is kept
Retained(lines) == lines[Len(lines)]

\* readLoop, lines 910-919: the next chunk, the next n bytes of the
\* content, is decoded, added to the buffer and split; the lines but the
\* last are passed to the parser
Feed(n) ==
    /\ reader.fed + n <= Len(reader.content)
    /\ LET chunk == SubSeq(reader.content, reader.fed + 1, reader.fed + n)
           decoded == Decode(reader.pending, chunk)
           lines == Split(reader.buffer \o decoded.text)
       IN reader' = [reader EXCEPT
              !.fed = reader.fed + n,
              !.pending = decoded.pending,
              !.buffer = Retained(lines),
              !.passed = reader.passed \o SubSeq(lines, 1, Len(lines) - 1)]
    /\ UNCHANGED <<vars, scope, listed, mvars, effects, parsed, sched>>

\* a watcher has written a text; nothing of it is read yet
InitRead ==
    /\ daemons = <<>>
    /\ cells = <<>>
    /\ fibers = <<>>
    /\ calls = [p \in Callers |-> IdleCall]
    /\ hist = <<>>
    /\ scope = "open"
    /\ listed = <<>>
    /\ Created("none")
    /\ \E text \in Texts :
           reader = [NoReader EXCEPT !.text = text, !.content = Encode(text)]
    /\ parsed = NoLine
    /\ sched = NoSchedule

\* the content arrives in chunks of any sizes
NextRead == \E n \in 1..(2 * MaxLen) : Feed(n)

SpecRead == InitRead /\ [][NextRead]_<<vars, rest>>

----------------------------------------------------------------------------
(* C22 *)

\* the first n characters of the text the watcher wrote
Written(n) == SubSeq(reader.text, 1, n)

\* the characters of the content that have arrived whole
Arrived ==
    Written(CHOOSE n \in 0..Len(reader.text) :
                /\ Len(Encode(Written(n))) <= reader.fed
                /\ n < Len(reader.text)
                       => Len(Encode(Written(n + 1))) > reader.fed)

\* the places of the newlines of a text
Newlines(text) == {i \in DOMAIN text : text[i] = "\n"}

\* the characters of a text from the newline before place i, or from the
\* start, up to place i
Segment(text, i) ==
    SubSeq(text,
           1 + CHOOSE j \in Newlines(text) \cup {0} :
                   /\ j < i
                   /\ \A m \in Newlines(text) : m < i => m <= j,
           i - 1)

\* the newline-terminated lines of a text, in order
Terminated(text) ==
    [j \in 1..Cardinality(Newlines(text)) |->
        Segment(text, CHOOSE i \in Newlines(text) :
                          Cardinality({m \in Newlines(text) : m <= i}) = j)]

\* C22: whatever the chunks a content arrives in, the lines passed to the
\* parser are the newline-terminated lines of what has arrived, each once
\* and in order, and the segment after the last newline is in the buffer
C22_LinesWhateverTheChunks ==
    /\ reader.passed = Terminated(Arrived)
    /\ reader.buffer = Segment(Arrived, Len(Arrived) + 1)

\* a line has been passed on, and the chunk that brought its newline has
\* ended within the next line and within a character of it
C22_Witness ==
    /\ reader.passed # <<>>
    /\ reader.buffer # <<>>
    /\ reader.pending # <<>>

----------------------------------------------------------------------------
(* C23 - C24 *)

\* this step, the read loop of child k takes the next line of its chunk
HandlesLine(k) ==
    /\ procs[k].rl = "lines"
    /\ procs[k].lines # <<>>
    /\ procs'[k].lines = Tail(procs[k].lines)

\* this step, the query the read loop of child k awaits ends
Ended(k, query) ==
    /\ procs[k].rl = "query"
    /\ procs[k].query = query
    /\ procs'[k].query # query

\* C23: on an audio change event on server the read loop first asks for
\* the default sink and nothing else; when that query has ended with a
\* name, onDefaultSinkChange is invoked and only then the volume query is
\* issued, whose end invokes onVolumeChange; when it has failed, onError is
\* invoked once, no volume query follows and the loop goes on to the next
\* line
C23_ServerChangeInOrder ==
    [][\A k \in 1..Len(procs) :
          kind = "audio" =>
            /\ (/\ HandlesLine(k)
                /\ Head(procs[k].lines) =
                       [action |-> "change", object |-> "server"])
                   => /\ effects'.called = <<"getDefaultSink">>
                      /\ procs'[k].rl = "query"
            /\ Ended(k, "getDefaultSink")
                   => \/ /\ effects'.called = <<"onDefaultSinkChange",
                                                "getDefaultSinkVolume">>
                         /\ procs'[k].rl = "query"
                         /\ procs'[k].query = "getDefaultSinkVolume"
                      \/ /\ effects'.called = <<"onError">>
                         /\ procs'[k].rl = "lines"
                         /\ procs'[k].query = "none"
            /\ Ended(k, "getDefaultSinkVolume")
                   => /\ effects'.called \in {<<"onVolumeChange">>,
                                              <<"onError">>}
                      /\ procs'[k].rl = "lines"
      ]_<<vars, rest>>

\* the default sink has been passed on and its volume is being asked for
C23_Witness ==
    /\ kind = "audio"
    /\ effects.called = <<"onDefaultSinkChange", "getDefaultSinkVolume">>
    /\ procs[1].query = "getDefaultSinkVolume"

\* C24: the audio read loop asks for the volume on a change event on sink
\* and for the default sink on a change event on server; on every other
\* event it issues no query, invokes no callback and goes on to the next
\* line; the volume asked for after a change on sink goes to
\* onVolumeChange
C24_OnlySinkAndServerChanges ==
    [][\A k \in 1..Len(procs) :
          kind = "audio" =>
            /\ HandlesLine(k) =>
                 LET event == Head(procs[k].lines) IN
                 /\ effects'.handled = <<event>>
                 /\ IF event.action = "change" /\ event.object = "sink"
                    THEN effects'.called = <<"getDefaultSinkVolume">>
                    ELSE IF event.action = "change" /\ event.object = "server"
                    THEN effects'.called = <<"getDefaultSink">>
                    ELSE /\ effects'.called = <<>>
                         /\ procs'[k].rl = "lines"
                         /\ procs'[k].query = "none"
                         /\ late' = late
            /\ Ended(k, "getDefaultSinkVolume")
                   => effects'.called \in {<<"onVolumeChange">>,
                                           <<"onError">>}
      ]_<<vars, rest>>

\* the read loop has just passed over the removal of a sink input
C24_Witness ==
    /\ kind = "audio"
    /\ effects = [handled |-> <<[action |-> "remove",
                                 object |-> "sink-input"]>>,
                  called |-> <<>>]
    /\ procs[1].rl = "lines"

----------------------------------------------------------------------------
(* C25 - C28 *)

\* C25: for a connected event the network read loop remembers the device
\* of the event and asks for the active connection, and nothing else; when
\* that query has ended exactly one callback is invoked, onConnect or
\* onError
C25_ConnectedInformsOnce ==
    [][\A k \in 1..Len(procs) :
          kind = "network" =>
            /\ (HandlesLine(k) /\ Head(procs[k].lines).type = "connected")
                   => /\ currentDevice' = Head(procs[k].lines).device
                      /\ effects'.called = <<"getActiveConnection">>
                      /\ procs'[k].rl = "query"
            /\ Ended(k, "getActiveConnection")
                   => effects'.called \in {<<"onConnect">>, <<"onError">>}
      ]_<<vars, rest>>

\* C26: the poller reads the signal only while a device is remembered, a
\* disconnected event forgets the device and invokes onDisconnect, and
\* onSignalChange is never invoked while no device is remembered, that is
\* after an onDisconnect and before the next connected event
C26_NoSignalWhileDisconnected ==
    [][/\ (poll = "idle" /\ poll' = "reading") => currentDevice # "none"
       /\ \A k \in 1..Len(procs) :
              (/\ kind = "network"
               /\ HandlesLine(k)
               /\ Head(procs[k].lines).type = "disconnected")
                  => /\ currentDevice' = "none"
                     /\ effects'.called = <<"onDisconnect">>
       /\ (poll = "reading" /\ effects'.called = <<"onSignalChange">>)
              => currentDevice # "none"
      ]_<<vars, rest>>

\* a child is gone and its exit handler has not run yet, or a restart is
\* scheduled
RestartAhead ==
    \/ timers # <<>>
    \/ \E k \in 1..Len(procs) :
           procs[k].state # "running" /\ procs[k].onExit = "pending"

\* C27: as long as the stop function has not been called, once init has
\* started the watcher there is a child that runs and whose read loop
\* reads on, or a restart of the watcher is ahead: no failure leaves a
\* monitor without a reader of the tool's lines
C27_WatcherKeptRunning ==
    (~stopped /\ initPc = "done")
        => \/ \E k \in 1..Len(procs) :
                  procs[k].state = "running" /\ procs[k].rl # "ended"
           \/ RestartAhead

\* C28: a connectivity or a connecting event is inert in the network read
\* loop: the step that handles it issues no query, invokes no callback,
\* leaves the remembered device as it is and goes on to the next line
C28_InertEvents ==
    [][\A k \in 1..Len(procs) :
          (/\ kind = "network"
           /\ HandlesLine(k)
           /\ Head(procs[k].lines).type \in {"connectivity", "connecting"})
              => /\ effects'.handled = <<Head(procs[k].lines)>>
                 /\ effects'.called = <<>>
                 /\ currentDevice' = currentDevice
                 /\ late' = late
                 /\ procs'[k].rl = "lines"
                 /\ procs'[k].query = "none"
      ]_<<vars, rest>>

\* the read loop has just passed over the start of a connection on a
\* device other than the remembered one
C28_Witness ==
    /\ kind = "network"
    /\ effects = [handled |-> <<[type |-> "connecting", device |-> "eth0",
                                 ssid |-> "Chili"]>>,
                  called |-> <<>>]
    /\ currentDevice = "wlan0"

----------------------------------------------------------------------------
(* parseMonitorLine, lines 520-549, taken by itself; a line is the        *)
(* sequence of its characters                                              *)

MaxWord == 2

\* \w of a regular expression: [A-Za-z0-9_]
WordChars ==
    {"a", "b", "c", "d", "e", "f", "g", "h", "i", "j", "k", "l", "m",
     "n", "o", "p", "q", "r", "s", "t", "u", "v", "w", "x", "y", "z",
     "A", "B", "C", "D", "E", "F", "G", "H", "I", "J", "K", "L", "M",
     "N", "O", "P", "Q", "R", "S", "T", "U", "V", "W", "X", "Y", "Z",
     "0", "1", "2", "3", "4", "5", "6", "7", "8", "9", "_"}

\* what . of a regular expression does not match
LineTerminators == {"\n", "\r"}

\* ": connected" of line 522
ConnectedText ==
    <<":", " ", "c", "o", "n", "n", "e", "c", "t", "e", "d">>

\* ": disconnected" of line 528
DisconnectedText ==
    <<":", " ", "d", "i", "s", "c", "o", "n", "n", "e", "c", "t", "e",
      "d">>

\* ": using connection '" of line 534
UsingText ==
    <<":", " ", "u", "s", "i", "n", "g", " ", "c", "o", "n", "n", "e",
      "c", "t", "i", "o", "n", " ", "'">>

\* "Connectivity is now '" of line 540
ConnectivityText ==
    <<"C", "o", "n", "n", "e", "c", "t", "i", "v", "i", "t", "y", " ",
      "i", "s", " ", "n", "o", "w", " ", "'">>

\* \w+ : one or more word characters
IsWord(text) == text # <<>> /\ \A i \in DOMAIN text : text[i] \in WordChars

\* text begins with head
StartsWith(text, head) ==
    Len(text) >= Len(head) /\ SubSeq(text, 1, Len(head)) = head

\* text ends with tail
EndsWith(text, tail) ==
    /\ Len(text) >= Len(tail)
    /\ SubSeq(text, Len(text) - Len(tail) + 1, Len(text)) = tail

\* text without its first n characters
Drop(text, n) == SubSeq(text, n + 1, Len(text))

\* text without its last n characters
DropLast(text, n) == SubSeq(text, 1, Len(text) - n)

\* the word characters a line begins with
LeadingWord(line) ==
    SubSeq(line, 1,
           CHOOSE n \in 0..Len(line) :
               /\ \A i \in 1..n : line[i] \in WordChars
               /\ n < Len(line) => line[n + 1] \notin WordChars)

\* line.match(/^(\w+)<text>$/), lines 522 and 528
MatchesWordThen(line, text) ==
    EndsWith(line, text) /\ IsWord(DropLast(line, Len(text)))

\* line.match(/^(\w+): using connection '(.+)'$/), line 534
MatchesUsing(line) ==
    /\ LeadingWord(line) # <<>>
    /\ StartsWith(Drop(line, Len(LeadingWord(line))), UsingText)
    /\ LET after == Drop(line, Len(LeadingWord(line)) + Len(UsingText))
       IN /\ Len(after) >= 2
          /\ after[Len(after)] = "'"
          /\ \A i \in DOMAIN after : after[i] \notin LineTerminators

\* line.match(/^Connectivity is now '(\w+)'$/), line 540
MatchesConnectivity(line) ==
    /\ StartsWith(line, ConnectivityText)
    /\ LET after == Drop(line, Len(ConnectivityText))
       IN /\ Len(after) >= 2
          /\ after[Len(after)] = "'"
          /\ IsWord(DropLast(after, 1))

\* parseMonitorLine, lines 520-549: <<event>>, or <<>> for null
parseMonitorLine(line) ==
    IF MatchesWordThen(line, ConnectedText)
    THEN <<[type |-> "connected",
            device |-> DropLast(line, Len(ConnectedText))]>>
    ELSE IF MatchesWordThen(line, DisconnectedText)
    THEN <<[type |-> "disconnected",
            device |-> DropLast(line, Len(DisconnectedText))]>>
    ELSE IF MatchesUsing(line)
    THEN <<[type |-> "connecting",
            device |-> LeadingWord(line),
            ssid |-> DropLast(Drop(line, Len(LeadingWord(line))
                                         + Len(UsingText)), 1)]>>
    ELSE IF MatchesConnectivity(line)
    THEN <<[type |-> "connectivity",
            connectivity |-> DropLast(Drop(line, Len(ConnectivityText)), 1)]>>
    ELSE <<>>

\* the sequences of at most MaxWord of the characters cs
Upto(cs) == UNION {[1..n -> cs] : n \in 0..MaxWord}

\* names of devices, of letters, digits and hyphens, and the empty name
DeviceNames == Upto({"w", "0", "-"})

\* names of networks, of letters, spaces and quotes, and the empty name
Ssids == Upto({"C", " ", "'"})

\* ConnectivityState, line 482
ConnectivityStates ==
    {<<"f", "u", "l", "l">>, <<"l", "i", "m", "i", "t", "e", "d">>,
     <<"n", "o", "n", "e">>}

\* the levels nmcli knows beside these, and what is no level
OtherLevels ==
    {<<"p", "o", "r", "t", "a", "l">>, <<"u", "n", "k", "n", "o", "w", "n">>,
     <<"F", "u", "l", "l">>, <<"n", "o", " ", "n", "e">>, <<>>}

\* what nmcli monitor writes besides: other lines, and lines that differ
\* from a form by a character
OtherLines ==
    {<<"N", "M", " ", "i", "s", " ", "u", "p">>,
     <<"w", "0", ":", " ", "c", "o", "n", "n", "e", "c", "t", "i", "n", "g">>,
     <<>>}
    \cup {d \o Drop(ConnectedText, 1) : d \in DeviceNames}
    \cup {d \o ConnectedText \o <<" ">> : d \in DeviceNames}
    \cup {<<" ">> \o d \o DisconnectedText : d \in DeviceNames}
    \cup {d \o UsingText \o n : d \in DeviceNames, n \in Ssids}
    \cup {Drop(ConnectivityText, 1) \o level \o <<"'">> :
              level \in ConnectivityStates}
    \cup {ConnectivityText \o level : level \in ConnectivityStates}

\* the lines given to the parser
Lines ==
    {d \o ConnectedText : d \in DeviceNames}
    \cup {d \o DisconnectedText : d \in DeviceNames}
    \cup {d \o UsingText \o n \o <<"'">> : d \in DeviceNames, n \in Ssids}
    \cup {ConnectivityText \o level \o <<"'">> :
              level \in ConnectivityStates \cup OtherLevels}
    \cup OtherLines

\* readLoop, line 918: const event = parseMonitorLine(line)
Parse ==
    /\ ~parsed.done
    /\ parsed' = [parsed EXCEPT !.done = TRUE,
                                !.event = parseMonitorLine(parsed.line)]
    /\ UNCHANGED <<vars, scope, listed, mvars, effects, reader, sched>>

\* a line is there, not parsed yet
InitParse ==
    /\ daemons = <<>>
    /\ cells = <<>>
    /\ fibers = <<>>
    /\ calls = [p \in Callers |-> IdleCall]
    /\ hist = <<>>
    /\ scope = "open"
    /\ listed = <<>>
    /\ Created("none")
    /\ reader = NoReader
    /\ \E line \in Lines : parsed = [NoLine EXCEPT !.line = line]
    /\ sched = NoSchedule

NextParse == Parse

SpecParse == InitParse /\ [][NextParse]_<<vars, rest>>

----------------------------------------------------------------------------
(* C29 - C30 *)

\* the lines of the four forms of the grammar, with a device and a
\* network of at least one character and one of the three levels
FormLines ==
    {d \o t : d \in DeviceNames \ {<<>>},
              t \in {ConnectedText, DisconnectedText}}
    \cup {d \o UsingText \o n \o <<"'">> :
              d \in DeviceNames \ {<<>>}, n \in Ssids \ {<<>>}}
    \cup {ConnectivityText \o level \o <<"'">> : level \in ConnectivityStates}

\* the lines "Connectivity is now '<x>'" whose x is none of the three
\* levels, which C30 is about
OtherLevelLines ==
    {ConnectivityText \o level \o <<"'">> : level \in OtherLevels}

\* C29: parseMonitorLine returns the connected, disconnected, connecting
\* or connectivity event of a line of one of the four forms, with the
\* device, the network (spaces and all) or the level of the line, and null
\* for a line of none of them
C29_ParsesTheFourForms ==
    parsed.done =>
        /\ \A d \in DeviceNames \ {<<>>} :
               /\ parsed.line = d \o ConnectedText
                      => parsed.event = <<[type |-> "connected",
                                           device |-> d]>>
               /\ parsed.line = d \o DisconnectedText
                      => parsed.event = <<[type |-> "disconnected",
                                           device |-> d]>>
               /\ \A n \in Ssids \ {<<>>} :
                      parsed.line = d \o UsingText \o n \o <<"'">>
                          => parsed.event = <<[type |-> "connecting",
                                               device |-> d, ssid |-> n]>>
        /\ \A level \in ConnectivityStates :
               parsed.line = ConnectivityText \o level \o <<"'">>
                   => parsed.event = <<[type |-> "connectivity",
                                        connectivity |-> level]>>
        /\ parsed.line \notin FormLines \cup OtherLevelLines
               => parsed.event = <<>>

\* C30: a connectivity event that parseMonitorLine returns carries one of
\* the levels full, limited and none
C30_LevelIsKnown ==
    (/\ parsed.done
     /\ parsed.event # <<>>
     /\ parsed.event[1].type = "connectivity")
        => parsed.event[1].connectivity \in ConnectivityStates

----------------------------------------------------------------------------
(* the watcher children of one monitor *)

\* the watcher children that run
Live == {k \in 1..Len(procs) : procs[k].state = "running"}

\* the children whose exit handler has scheduled a restart
Restarted == {k \in 1..Len(procs) : procs[k].onExit = "restart"}

\* C40: a monitor has at most one live watcher child at any time, and its
\* children are no more than the one init spawns plus one for each restart
\* that the exit handler of an earlier child has scheduled
C40_OneLiveWatcher ==
    /\ Cardinality(Live) <= 1
    /\ Len(procs) + Len(timers) <= 1 + Cardinality(Restarted)
    /\ initPc = "query" => procs = <<>>

\* the restart has spawned a second child after the first one exited
C40_Witness ==
    /\ Len(procs) >= 2
    /\ procs[1].state = "exited" /\ procs[1].onExit = "restart"
    /\ procs[2].state = "running"
    /\ ~stopped

----------------------------------------------------------------------------
(* a daemon whose child has died *)

\* a child spawned for the name has exited by itself
ChildDied(name) == \E f \in FibersOf(name) : fibers[f].child = "exited"

\* C38: a daemon whose child has died is only respawned through stop: a
\* start that reads the state "running" returns at once, forks nothing and
\* leaves the state and the handle as they are; and the start that follows
\* a successful stop of the name forks a new fiber and records a handle
\* which differs from the one the entry had
C38_RespawnOnlyThroughStop ==
    [][\A n \in DOMAIN daemons :
           (ChildDied(n) /\ calls["c1"].op = "start" /\ calls["c1"].name = n)
               => /\ (/\ calls["c1"].pc = "startGet" /\ calls' # calls
                       /\ StateOf(n) = "running")
                       => /\ Returns("c1", "start")
                          /\ fibers' = fibers
                          /\ cells' = cells
                          /\ daemons' = daemons
                  /\ (Returns("c1", "start") /\ LastOk("stop", n))
                       => /\ calls["c1"].fiber = Len(fibers)
                          /\ calls["c1"].fiber \notin {NoFiber, Last.handle}
                          /\ daemons'[n].fiber = calls["c1"].fiber]_vars

----------------------------------------------------------------------------
(* a set while a start is suspended *)

\* C39: a set that has completed while a start of the same name was
\* suspended between reading the entry and recording the handle is not
\* lost: when that start records its handle, the entry keeps the command
\* the set has registered and carries the handle of the fiber just forked
C39_SetDuringStartKept ==
    [][\A p \in Callers : \A n \in DOMAIN daemons :
           (/\ Returns(p, "start") /\ calls[p].name = n
            /\ calls[p].fiber # NoFiber
            /\ LastOk("set", n))
               => /\ daemons'[n].command = Last.command
                  /\ daemons'[n].fiber = calls[p].fiber]_vars

----------------------------------------------------------------------------
(* parseSubscribeLine (audio.ts, held in unnamed/part_003, lines 285-298)  *)

\* "Event '" of the expression of line 287
EventText == <<"E", "v", "e", "n", "t", " ", "'">>

\* "' on "
OnText == <<"'", " ", "o", "n", " ">>

\* " #"
IndexText == <<" ", "#">>

\* \d of a regular expression, in the order of the values
Digits == <<"0", "1", "2", "3", "4", "5", "6", "7", "8", "9">>

\* a greedy class that takes a single character
Leading_One(text, cs) ==
    SubSeq(text, 1, IF text # <<>> /\ text[1] \in cs THEN 1 ELSE 0)

\* what a greedy [cs]* takes of the beginning of text
Leading(text, cs) ==
    SubSeq(text, 1,
           CHOOSE n \in 0..Len(text) :
               /\ \A i \in 1..n : text[i] \in cs
               /\ n < Len(text) => text[n + 1] \notin cs)

\* parseInt(text, 10) of a text of digits: digit after digit from the left
RECURSIVE ParseDigits(_)
ParseDigits(text) ==
    IF text = <<>> THEN 0
    ELSE LET before == ParseDigits(DropLast(text, 1))
         IN 10 * before
              + (CHOOSE v \in 0..9 : Digits[v + 1] = text[Len(text)])

\* parseSubscribeLine, lines 285-298: <<event>>, or <<>> for null; the
\* expression of line 287 is /^Event '(\w+)' on ([\w-]+) #(\d+)$/, and
\* action and object are cast, not tested (lines 294-295)
parseSubscribeLine(line) ==
    LET action == Leading(Drop(line, Len(EventText)), WordChars)
        afterAction == Drop(line, Len(EventText) + Len(action))
        object == Leading(Drop(afterAction, Len(OnText)),
                          WordChars \cup {"-"})
        afterObject == Drop(afterAction, Len(OnText) + Len(object))
        index == Leading(Drop(afterObject, Len(IndexText)),
                         {Digits[i] : i \in DOMAIN Digits})
    IN IF /\ StartsWith(line, EventText) /\ action # <<>>
          /\ StartsWith(afterAction, OnText) /\ object # <<>>
          /\ StartsWith(afterObject, IndexText) /\ index # <<>>
          /\ Len(afterObject) = Len(IndexText) + Len(index)
       THEN <<[action |-> action, object |-> object,
               index |-> ParseDigits(index)]>>
       ELSE <<>>

\* AudioEventAction, line 252, letter by letter
ActionWords ==
    {<<"c", "h", "a", "n", "g", "e">>, <<"n", "e", "w">>,
     <<"r", "e", "m", "o", "v", "e">>}

\* AudioEventObject, lines 257-265, letter by letter
ObjectWords ==
    {<<"s", "i", "n", "k">>, <<"s", "o", "u", "r", "c", "e">>,
     <<"s", "e", "r", "v", "e", "r">>, <<"c", "l", "i", "e", "n", "t">>,
     <<"c", "a", "r", "d">>,
     <<"s", "i", "n", "k", "-", "i", "n", "p", "u", "t">>,
     <<"s", "o", "u", "r", "c", "e", "-", "o", "u", "t", "p", "u", "t">>,
     <<"m", "o", "d", "u", "l", "e">>}

\* other words in the place of the action: none, another case, another
\* word
OtherActions == {<<>>, <<"N", "e", "w">>, <<"m", "o", "v", "e">>}

\* other words in the place of the object: none, two words, and the
\* facilities pactl subscribe names beside the eight
OtherObjects ==
    {<<>>, <<"s", "i", "n", "k", " ", "i", "n", "p", "u", "t">>,
     <<"s", "a", "m", "p", "l", "e", "-", "c", "a", "c", "h", "e">>,
     <<"a", "u", "t", "o", "l", "o", "a", "d">>}

\* the indices written after "#": at most MaxWord digits, or none
Indices == Upto({"0", "5", "6"})

\* what pactl subscribe writes besides, and lines that differ from the
\* form by a character
OtherSubscribeLines ==
    {<<>>,
     <<"G", "o", "t", " ", "S", "I", "G", "I", "N", "T">>,
     <<"r", "a", "n", "d", "o", "m", " ", "t", "e", "x", "t">>,
     EventText \o <<"n", "e", "w">> \o OnText \o <<"s", "i", "n", "k">>,
     EventText \o <<"n", "e", "w">> \o OnText \o <<"s", "i", "n", "k">>
         \o IndexText \o <<"5", " ">>,
     EventText \o <<"n", "e", "w">> \o OnText \o <<"s", "i", "n", "k">>
         \o IndexText \o <<"-", "5">>,
     <<" ">> \o EventText \o <<"n", "e", "w">> \o OnText
         \o <<"s", "i", "n", "k">> \o IndexText \o <<"5">>,
     Drop(EventText, 1) \o <<"n", "e", "w">> \o OnText
         \o <<"s", "i", "n", "k">> \o IndexText \o <<"5">>}

\* the lines given to parseSubscribeLine
SubscribeLines ==
    {EventText \o a \o OnText \o o \o IndexText \o i :
         a \in ActionWords \cup OtherActions,
         o \in ObjectWords \cup OtherObjects, i \in Indices}
    \cup OtherSubscribeLines

----------------------------------------------------------------------------
(* readWifiSignal (network.ts, lines 562-579)                              *)

MaxQuality == 100

\* a number as the kernel writes it in /proc/net/wireless
Numeral(n) ==
    IF n < 10 THEN <<Digits[n + 1]>>
    ELSE IF n < 100 THEN <<Digits[(n \div 10) + 1], Digits[(n % 10) + 1]>>
    ELSE <<Digits[(n \div 100) + 1], Digits[((n \div 10) % 10) + 1],
           Digits[(n % 10) + 1]>>

\* /proc/net/wireless: it cannot be read, or it has a row for each
\* wireless interface, " wlan0: 0000   32.  -78.  -256 ...", of which the
\* model keeps the name and the digits of the link quality
WirelessFiles ==
    {[readable |-> FALSE, rows |-> <<>>], [readable |-> TRUE, rows |-> <<>>]}
    \cup {[readable |-> TRUE,
           rows |-> <<[device |-> d, quality |-> Numeral(q)]>>] :
              d \in Devices, q \in 0..MaxQuality}
    \cup {[readable |-> TRUE,
           rows |-> <<[device |-> "eth0", quality |-> Numeral(70)],
                      [device |-> "wlan0", quality |-> Numeral(q)]>>] :
              q \in 0..MaxQuality}

\* Math.round((linkQuality / 70) * 100), line 575: the nearest integer,
\* the half upwards; 10q/7 is never half an integer and the error of the
\* two floating-point operations is far below 1/14
Percent(linkQuality) == (200 * linkQuality + 70) \div 140

\* readWifiSignal, lines 562-579: <<signal>>, or <<>> for null; the
\* expression of line 569 has the flag m and matches the first row of the
\* device
readWifiSignal(device, file) ==
    LET found == {i \in DOMAIN file.rows : file.rows[i].device = device}
    IN IF ~file.readable \/ found = {} THEN <<>>
       ELSE LET first == CHOOSE i \in found : \A j \in found : i <= j
            IN <<Percent(ParseDigits(file.rows[first].quality))>>

----------------------------------------------------------------------------
(* getEthernetSpeed and listEthernetDevices (network.ts, lines 672-682    *)
(* and 689-738)                                                            *)

\* what trim() and parseInt skip
WhiteSpace == {" ", "\n", "\t", "\r"}

\* text.trim()
Trim(text) ==
    LET inside == {i \in DOMAIN text : text[i] \notin WhiteSpace}
    IN IF inside = {} THEN <<>>
       ELSE SubSeq(text, CHOOSE i \in inside : \A j \in inside : i <= j,
                         CHOOSE i \in inside : \A j \in inside : j <= i)

\* parseInt(text, 10): white space, a sign, then the digits there are;
\* <<n>>, or <<>> for NaN when there is no digit
ParseInt(text) ==
    LET start == Drop(text, Len(Leading(text, WhiteSpace)))
        signed == start # <<>> /\ start[1] \in {"+", "-"}
        digits == Leading(IF signed THEN Drop(start, 1) ELSE start,
                          {Digits[i] : i \in DOMAIN Digits})
    IN IF digits = <<>> THEN <<>>
       ELSE IF signed /\ start[1] = "-" THEN <<0 - ParseDigits(digits)>>
       ELSE <<ParseDigits(digits)>>

\* the file /sys/class/net/<device>/speed: it cannot be read (the link is
\* down), or it holds a text
SpeedTexts ==
    {<<"1", "0", "\n">>, <<"1", "0", "0", "\n">>, <<"1">>, <<" ", "5", "\n">>,
     <<"-", "1", "\n">>, <<"0", "\n">>, <<"-", "5", "\n">>, <<"0", "0">>,
     <<>>, <<"\n">>, <<"x", "\n">>, <<"-">>, <<"x", "1">>,
     <<"1", "x">>}

SpeedFiles ==
    {[readable |-> FALSE, text |-> <<>>]}
    \cup {[readable |-> TRUE, text |-> t] : t \in SpeedTexts}

\* a getEthernetSpeed that takes 0 for a speed
getEthernetSpeed_NonNegative(file) ==
    IF ~file.readable THEN <<>>
    ELSE LET speed == ParseInt(Trim(file.text))
         IN IF speed # <<>> /\ speed[1] >= 0 THEN speed ELSE <<>>

\* getEthernetSpeed, lines 672-682: <<speed>>, or <<>> for undefined;
\* NaN > 0 is false
getEthernetSpeed(file) ==
    IF ~file.readable THEN <<>>
    ELSE LET speed == ParseInt(Trim(file.text))
         IN IF speed # <<>> /\ speed[1] > 0 THEN speed ELSE <<>>

\* the STATE column of nmcli dev status
NmcliStates ==
    {"connected", "disconnected", "unavailable", "connecting (prepare)",
     "connected (externally)"}

\* the rows of nmcli -t -f DEVICE,TYPE,STATE,CONNECTION dev status, split
\* at their colons (line 711), without the connection
StatusRows ==
    [device : {"eth0", ""}, type : {"ethernet", "wifi"}, state : NmcliStates]

\* lines 714-716: the state of the device
EthernetState(state) ==
    IF state \in {"connected", "unavailable"} THEN state ELSE "disconnected"

\* listEthernetDevices, lines 689-738, for the rows of the tool and the
\* speed file of each device: the ethernet devices, the speed looked up
\* for the connected ones (lines 727-733)
listEthernetDevices(rows, files) ==
    LET kept == SelectSeq(rows,
                    LAMBDA r : r.type = "ethernet" /\ r.device # "")
    IN [i \in DOMAIN kept |->
           [device |-> kept[i].device,
            state |-> EthernetState(kept[i].state),
            speed |-> IF EthernetState(kept[i].state) = "connected"
                      THEN getEthernetSpeed(files[kept[i].device])
                      ELSE <<>>]]

----------------------------------------------------------------------------
(* parseWifiListOutput (network.ts, lines 592-629)                         *)

\* line.split(/(?<!\\):/), line 602: the fields between the colons that
\* no backslash precedes
RECURSIVE SplitColons(_)
SplitColons(line) ==
    LET cuts == {i \in DOMAIN line :
                     line[i] = ":" /\ (i = 1 \/ line[i - 1] # "\\")}
    IN IF cuts = {} THEN <<line>>
       ELSE LET last == CHOOSE i \in cuts : \A j \in cuts : j <= i
                before == SplitColons(SubSeq(line, 1, last - 1))
            IN Append(before, Drop(line, last))

\* replace(/\\:/g, ":"), line 606
RECURSIVE Unescape(_)
Unescape(text) ==
    IF text = <<>> THEN <<>>
    ELSE IF Len(text) >= 2 /\ text[1] = "\\" /\ text[2] = ":"
    THEN LET rest2 == Unescape(Drop(text, 2)) IN <<":">> \o rest2
    ELSE LET rest1 == Unescape(Drop(text, 1)) IN <<text[1]>> \o rest1

\* lines 599-614: the rows that become a network
KeepsRow(line) ==
    /\ line # <<>>
    /\ Len(SplitColons(line)) >= 9
    /\ SplitColons(line)[1] # <<>>
    /\ Unescape(SplitColons(line)[2]) # <<>>

\* parseWifiListOutput, lines 592-629, of the lines of the output (line
\* 595): the networks, without their rate, frequency and security, which
\* are the fields as they are
parseWifiListOutput(lines) ==
    LET kept == SelectSeq(lines, KeepsRow)
    IN [i \in DOMAIN kept |->
           LET parts == SplitColons(kept[i])
           IN [ssid |-> parts[1],
               bssid |-> Unescape(parts[2]),
               signal |-> IF parts[3] # <<>> THEN ParseInt(parts[3])
                          ELSE <<0>>,
               channel |-> IF parts[6] # <<>> THEN ParseInt(parts[6])
                           ELSE <<>>,
               active |-> parts[9] = <<"y", "e", "s">>]]

\* nmcli -t writes a value with a backslash before each of its colons
\* and backslashes
RECURSIVE Escape(_)
Escape(value) ==
    IF value = <<>> THEN <<>>
    ELSE LET rest1 == Escape(Drop(value, 1))
         IN IF value[1] \in {":", "\\"} THEN <<"\\", value[1]>> \o rest1
            ELSE <<value[1]>> \o rest1

\* a row of the tool for the values of its fields
RECURSIVE RowText(_)
RowText(values) ==
    IF values = <<>> THEN <<>>
    ELSE IF Len(values) = 1 THEN Escape(values[1])
    ELSE LET before == RowText(DropLast(values, 1))
         IN before \o <<":">> \o Escape(values[Len(values)])

\* the values of the nine fields SSID, BSSID, SIGNAL, RATE, FREQ, CHAN,
\* SECURITY, DEVICE, ACTIVE of the rows given to the parser: the network
\* may be hidden, and its name may hold a colon or end with a backslash
WifiValues ==
    {<<ssid, bssid, signal, <<"5", "4">>, <<"2">>, chan, <<"W">>, <<"w">>,
       active>> :
         ssid \in {<<"A">>, <<>>, <<"a", ":", "b">>, <<"a", "\\">>},
         bssid \in {<<"3", "4", ":", "7", "8">>, <<"F", "9", ":", "B", "0">>},
         signal \in {<<"7", "5">>, <<"0">>, <<"1", "0", "0">>},
         chan \in {<<"6">>, <<"1", "1">>},
         active \in {<<"y", "e", "s">>, <<"n", "o">>, <<>>}}

\* the outputs given to the parser: a row, a row cut short or with a field
\* more, two rows, an empty line
WifiOutputs ==
    {<<RowText(v)>> : v \in WifiValues}
    \cup {<<RowText(SubSeq(v, 1, n))>> : v \in WifiValues, n \in {2, 8}}
    \cup {<<RowText(v \o <<<<"x">>>>)>> : v \in WifiValues}
    \cup {<<RowText(v), <<>>, RowText(v)>> : v \in WifiValues}

----------------------------------------------------------------------------
(* the one-shot queries (audio.ts, lines 32-243, and network.ts, lines     *)
(* 636-864)                                                                *)

\* how an invocation of the external tool ends: its exit code, what it
\* wrote to stderr, and whether its output holds what the query looks for
Outcomes ==
    [exitCode : {0, 1, 10}, stderr : {"", "Connection refused"},
     stdout : {"found", "nothing"}]

\* throw new Error(`... failed with exit code ${exitCode}: ${errorOutput}`)
CommandFailed(run) ==
    [tag |-> "Error", exitCode |-> run.exitCode, stderr |-> run.stderr]

\* what a query returns of the output of a tool that exited with 0
Value(run) == [tag |-> "value", of |-> run.stdout]

\* the queries of one invocation: listSinks, listSources, getDefaultSink,
\* setDefaultSink, setDefaultSource, getDefaultSource (audio.ts 32-173),
\* listWifiNetworks and listEthernetDevices (network.ts 636-738): if
\* (exitCode !== 0) throw
OneShot(run) ==
    IF run.exitCode # 0 THEN CommandFailed(run) ELSE Value(run)

\* a getDefaultSinkVolume that looks at the exit code of the first tool
getDefaultSinkVolume_VolumeOnly(volume, mute) ==
    IF volume.exitCode # 0 THEN CommandFailed(volume)
    ELSE Value(volume)

\* getDefaultSinkVolume, audio.ts 189-243: both tools are started and
\* awaited, then the exit code of each is tested, the volume's first
getDefaultSinkVolume(volume, mute) ==
    IF volume.exitCode # 0 THEN CommandFailed(volume)
    ELSE IF mute.exitCode # 0 THEN CommandFailed(mute)
    ELSE Value(volume)

\* getActiveConnection, network.ts 807-864: the status of the wifi list if
\* that tool succeeded and lists an active network (lines 825-828);
\* otherwise the active connections are asked for, and only that tool's
\* exit code is tested (lines 839-844)
getActiveConnection(wifi, conn) ==
    IF wifi.exitCode = 0 /\ wifi.stdout = "found" THEN Value(wifi)
    ELSE IF conn.exitCode # 0 THEN CommandFailed(conn)
    ELSE Value(conn)

\* the names of the queries of one invocation
OneShotQueries ==
    {"listSinks", "listSources", "getDefaultSink", "setDefaultSink",
     "setDefaultSource", "getDefaultSource", "listWifiNetworks",
     "listEthernetDevices"}

----------------------------------------------------------------------------
(* the functions applied to what they are given *)

\* the function fn returns result
Returned(fn, result) ==
    /\ ~parsed.done
    /\ parsed.line.fn = fn
    /\ parsed' = [parsed EXCEPT !.done = TRUE, !.event = result]
    /\ UNCHANGED <<vars, scope, listed, mvars, effects, reader, sched>>

\* readLoop of the audio monitor, line 356: parseSubscribeLine(line)
ApplySubscribe ==
    Returned("parseSubscribeLine", parseSubscribeLine(parsed.line.arg))

\* the poller, line 951: readWifiSignal(currentDevice)
ApplySignal ==
    Returned("readWifiSignal",
             readWifiSignal(parsed.line.arg.device, parsed.line.arg.file))

\* listEthernetDevices() with the rows the tool writes and the speed files
ApplyEthernet ==
    Returned("listEthernetDevices",
             listEthernetDevices(parsed.line.arg.rows, parsed.line.arg.files))

\* listWifiNetworks, line 660: parseWifiListOutput(output)
ApplyWifiList ==
    Returned("parseWifiListOutput", parseWifiListOutput(parsed.line.arg))

\* a one-shot query with the outcomes of the tools it invokes
ApplyQuery ==
    LET arg == parsed.line.arg
    IN Returned("query",
                IF arg.query = "getDefaultSinkVolume"
                THEN getDefaultSinkVolume(arg.runs[1], arg.runs[2])
                ELSE IF arg.query = "getActiveConnection"
                THEN getActiveConnection(arg.runs[1], arg.runs[2])
                ELSE OneShot(arg.runs[1]))

\* the calls the model makes: a function and its argument
Applications ==
    [fn : {"parseSubscribeLine"}, arg : SubscribeLines]
    \cup [fn : {"readWifiSignal"},
          arg : [device : {"wlan0"}, file : WirelessFiles]]
    \cup [fn : {"listEthernetDevices"},
          arg : {[rows |-> <<r>>, files |-> [d \in {"eth0"} |-> f]] :
                     r \in StatusRows, f \in SpeedFiles}]
    \cup [fn : {"parseWifiListOutput"}, arg : WifiOutputs]
    \cup [fn : {"query"},
          arg : [query : {"getDefaultSinkVolume", "getActiveConnection"},
                 runs : [1..2 -> Outcomes]]
                \cup [query : OneShotQueries, runs : [1..1 -> Outcomes]]]

\* a function has been called and has not returned yet
InitApply ==
    /\ daemons = <<>>
    /\ cells = <<>>
    /\ fibers = <<>>
    /\ calls = [p \in Callers |-> IdleCall]
    /\ hist = <<>>
    /\ scope = "open"
    /\ listed = <<>>
    /\ Created("none")
    /\ reader = NoReader
    /\ \E c \in Applications : parsed = [NoLine EXCEPT !.line = c]
    /\ sched = NoSchedule

NextApply ==
    \/ ApplySubscribe
    \/ ApplySignal
    \/ ApplyEthernet
    \/ ApplyWifiList
    \/ ApplyQuery

SpecApply == InitApply /\ [][NextApply]_<<vars, rest>>

\* the call of fn is over
Applied(fn) == parsed.done /\ parsed.line.fn = fn

\* the number the digits of text write in base ten is n
Writes(text, n) ==
    /\ n \in 0..(10 ^ Len(text) - 1)
    /\ \A i \in DOMAIN text :
           Digits[((n \div (10 ^ (Len(text) - i))) % 10) + 1] = text[i]

\* C31: parseSubscribeLine returns the action, the object and the index,
\* the index being the decimal value of the digits after "#", of a line
\* "Event '<action>' on <object> #<index>" with one of the three actions
\* and one of the eight objects, and null for the empty line, free text, a
\* line without its index and the lines that differ from the form by a
\* character
C31_ParsesSubscribeLines ==
    Applied("parseSubscribeLine") =>
        /\ \A a \in ActionWords, o \in ObjectWords, i \in Indices \ {<<>>} :
               parsed.line.arg = EventText \o a \o OnText \o o
                                     \o IndexText \o i
                   => /\ Len(parsed.event) = 1
                      /\ parsed.event[1].action = a
                      /\ parsed.event[1].object = o
                      /\ Writes(i, parsed.event[1].index)
        /\ parsed.line.arg \in OtherSubscribeLines => parsed.event = <<>>
        /\ (\E a \in ActionWords, o \in ObjectWords :
                parsed.line.arg = EventText \o a \o OnText \o o \o IndexText)
               => parsed.event = <<>>

\* a line of the form with an index of two digits has been parsed
C31_Witness ==
    /\ Applied("parseSubscribeLine")
    /\ parsed.line.arg = EventText \o <<"c", "h", "a", "n", "g", "e">>
                             \o OnText \o <<"s", "i", "n", "k">>
                             \o IndexText \o <<"5", "6">>
    /\ parsed.event = <<[action |-> <<"c", "h", "a", "n", "g", "e">>,
                         object |-> <<"s", "i", "n", "k">>, index |-> 56]>>

\* C32: parseSubscribeLine returns an event only when the action is one of
\* new, change and remove and the object one of the eight types
C32_OnlyTheAudioGrammar ==
    (Applied("parseSubscribeLine") /\ parsed.event # <<>>)
        => /\ parsed.event[1].action \in ActionWords
           /\ parsed.event[1].object \in ObjectWords

\* the rows of the device in the file given to readWifiSignal
RowsOf(arg) == {i \in DOMAIN arg.file.rows : arg.file.rows[i].device = arg.device}

\* C34: readWifiSignal returns null when the file cannot be read or has no
\* row for the device, and otherwise the integer nearest to q*100/70 for
\* the link quality q of the first row of the device; what it returns is
\* between 0 and 100
C34_SignalIsAPercentage ==
    Applied("readWifiSignal") =>
        LET arg == parsed.line.arg
        IN /\ (~arg.file.readable \/ RowsOf(arg) = {}) => parsed.event = <<>>
           /\ (arg.file.readable /\ RowsOf(arg) # {})
                  => /\ Len(parsed.event) = 1
                     /\ \E i \in RowsOf(arg), q \in 0..(MaxQuality + 1) :
                            /\ \A j \in RowsOf(arg) : i <= j
                            /\ Writes(arg.file.rows[i].quality, q)
                            /\ 2 * (70 * parsed.event[1] - 100 * q) <= 70
                            /\ 2 * (100 * q - 70 * parsed.event[1]) <= 70
           /\ parsed.event # <<>> => parsed.event[1] \in 0..100

\* the texts of a speed file that are an integer not above zero, and the
\* texts that are no number
NonPositiveTexts ==
    {<<"-", "1", "\n">>, <<"0", "\n">>, <<"-", "5", "\n">>, <<"0", "0">>}

NonNumericTexts == {<<>>, <<"\n">>, <<"x", "\n">>, <<"-">>, <<"x", "1">>}

NetworkOf(v, network) ==
    /\ network.bssid = v[2]
    /\ Len(network.signal) = 1 /\ Writes(v[3], network.signal[1])
    /\ Len(network.channel) = 1 /\ Writes(v[6], network.channel[1])
    /\ network.active <=> (v[9] = <<"y", "e", "s">>)

\* C35: of every row with the nine fields, the colons of its BSSID
\* escaped, the wifi list parser returns a network with the BSSID in plain
\* colons, the integers of the signal and the channel fields, and active
\* exactly for the ACTIVE field "yes"; a row of fewer than nine fields is
\* dropped
C35_WifiRowsByPosition ==
    Applied("parseWifiListOutput") =>
        \A v \in WifiValues :
            /\ parsed.line.arg = <<RowText(v)>>
                   => /\ Len(parsed.event) = 1
                      /\ NetworkOf(v, parsed.event[1])
            /\ parsed.line.arg = <<RowText(v), <<>>, RowText(v)>>
                   => /\ Len(parsed.event) = 2
                      /\ NetworkOf(v, parsed.event[1])
                      /\ NetworkOf(v, parsed.event[2])
            /\ parsed.line.arg \in {<<RowText(SubSeq(v, 1, n))>> : n \in {2, 8}}
                   => parsed.event = <<>>

----------------------------------------------------------------------------
(* debounce (src/lib/debounce.ts, lines 32-47)                             *)

\* the wait of the debounced callback, in ticks of the clock
Wait == 2

MaxCalls == 3

MaxTime == 6

\* the arguments of a call
Arguments == {"x", "y"}

\* a clearTimeout that leaves the timeout pending
clearTimeout_Nothing(pending, id) == pending

\* clearTimeout(timeoutId): the timeout of that id, if it is pending, is
\* no more; an id that has fired or undefined clears nothing
clearTimeout(pending, id) == {t \in pending : t.id # id}

\* debounced(...args), lines 41-44; the id of the timeout is the number of
\* the call that set it
Debounced(args) ==
    /\ Len(sched.called) < MaxCalls
    /\ LET id == Len(sched.called) + 1
           kept == IF sched.timeoutId # 0
                   THEN clearTimeout(sched.timers, sched.timeoutId)
                   ELSE sched.timers
       IN sched' = [sched EXCEPT
                        !.timers = kept \cup {[id |-> id,
                                               due |-> sched.now + Wait,
                                               args |-> args]},
                        !.timeoutId = id,
                        !.called = Append(sched.called,
                                          [at |-> sched.now, args |-> args])]
    /\ UNCHANGED <<vars, scope, listed, mvars, effects, reader, parsed>>

\* clear(), line 37: clearTimeout(timeoutId); cancelled remembers the call
\* whose timeout was pending
Clear ==
    /\ sched' = [sched EXCEPT
                     !.timers = clearTimeout(sched.timers, sched.timeoutId),
                     !.cancelled =
                         sched.cancelled
                             \cup {t.id : t \in {u \in sched.timers :
                                                  u.id = sched.timeoutId}}]
    /\ UNCHANGED <<vars, scope, listed, mvars, effects, reader, parsed>>

\* the timeout of line 43 is due: callback(...args)
TimeoutFires(t) ==
    /\ t \in sched.timers
    /\ t.due <= sched.now
    /\ sched' = [sched EXCEPT
                     !.timers = sched.timers \ {t},
                     !.invoked = Append(sched.invoked,
                                        [at |-> sched.now, args |-> t.args,
                                         call |-> t.id])]
    /\ UNCHANGED <<vars, scope, listed, mvars, effects, reader, parsed>>

\* a tick of the clock; a timeout that is due runs before the next tick
TimePasses ==
    /\ sched.now < MaxTime
    /\ \A t \in sched.timers : t.due > sched.now
    /\ sched' = [sched EXCEPT !.now = sched.now + 1]
    /\ UNCHANGED <<vars, scope, listed, mvars, effects, reader, parsed>>

\* debounce(callback, wait) has returned the debounced function
InitDebounce ==
    /\ daemons = <<>>
    /\ cells = <<>>
    /\ fibers = <<>>
    /\ calls = [p \in Callers |-> IdleCall]
    /\ hist = <<>>
    /\ scope = "open"
    /\ listed = <<>>
    /\ Created("none")
    /\ reader = NoReader
    /\ parsed = NoLine
    /\ sched = NoSchedule

\* the callers call the debounced function and clear() at any time
NextDebounce ==
    \/ \E args \in Arguments : Debounced(args)
    \/ Clear
    \/ \E t \in sched.timers : TimeoutFires(t)
    \/ TimePasses

SpecDebounce == InitDebounce /\ [][NextDebounce]_<<vars, rest>>

\* the call n is the last of its burst: the next call, if there is one,
\* comes no less than Wait after it
EndsBurst(n) ==
    n < Len(sched.called) => sched.called[n + 1].at >= sched.called[n].at + Wait

\* the calls the callback was invoked for
InvokedCalls == {sched.invoked[i].call : i \in DOMAIN sched.invoked}

\* C37: the callback is invoked only for the last call of a burst, Wait
\* after that call and with its arguments, and once; it is invoked for
\* every burst whose timeout was not cleared once Wait has passed; and it
\* is not invoked for a call whose pending timeout clear() has cancelled
C37_TrailingEdge ==
    /\ \A i \in DOMAIN sched.invoked :
           LET e == sched.invoked[i]
           IN /\ EndsBurst(e.call)
              /\ e.at = sched.called[e.call].at + Wait
              /\ e.args = sched.called[e.call].args
              /\ \A j \in DOMAIN sched.invoked : j # i => sched.invoked[j].call # e.call
    /\ \A n \in DOMAIN sched.called :
           (/\ n \notin sched.cancelled
            /\ \/ n < Len(sched.called)
                    /\ sched.called[n + 1].at > sched.called[n].at + Wait
               \/ n = Len(sched.called)
                    /\ sched.now > sched.called[n].at + Wait)
               => n \in InvokedCalls
    /\ sched.cancelled \cap InvokedCalls = {}

\* a burst of three calls has ended with one invocation, for the last call
C37_Witness ==
    /\ Len(sched.called) = 3
    /\ sched.called[2].at = sched.called[1].at + 1
    /\ sched.called[3].at = sched.called[2].at + 1
    /\ sched.called[3].args # sched.called[2].args
    /\ Len(sched.invoked) = 1
    /\ sched.invoked[1].call = 3

\* a call was cleared while its timeout was pending, and time went on
C37_WitnessClear ==
    /\ Len(sched.called) = 1
    /\ sched.cancelled = {1}
    /\ sched.now > sched.called[1].at + Wait
    /\ sched.invoked = <<>>

\* the result is the failure of the invocation i of the query
FailsWith(i) ==
    /\ parsed.event.tag = "Error"
    /\ parsed.event.exitCode = parsed.line.arg.runs[i].exitCode
    /\ parsed.event.stderr = parsed.line.arg.runs[i].stderr

\* the invocations a query makes: getActiveConnection asks for the active
\* connections unless the wifi list has given it a status
Invocations(arg) ==
    IF arg.query = "getActiveConnection"
    THEN IF arg.runs[1].exitCode = 0 /\ arg.runs[1].stdout = "found"
         THEN {1} ELSE {1, 2}
    ELSE DOMAIN arg.runs

\* the invocations that exited with another code than 0
Failed(arg) == {i \in Invocations(arg) : arg.runs[i].exitCode # 0}

Tested(arg) ==
    IF arg.query = "getActiveConnection" THEN Invocations(arg) \ {1}
    ELSE Invocations(arg)

====
